---- MODULE Spec2Model ----
(***************************************************************************)
(* NetworkNeuron: the incentive ledger (IncentiveSystem) as a state        *)
(* machine.  Token amounts are JavaScript numbers in the source; here they *)
(* are exact rationals, stored as integers in units of 1/Scale token, so   *)
(* that the reward formula of calculateRewards is computed without         *)
(* rounding.                                                               *)
(***************************************************************************)
EXTENDS Integers, Sequences, FiniteSets, TLC

(***************************************************************************)
(* Configuration (IncentiveSystem constructor) and model bounds            *)
(***************************************************************************)
Nodes == {"n1", "n2"}
RewardPoolId == "reward_pool"
StakePoolId == "stake_pool"
Accounts == Nodes \cup {RewardPoolId}
\* config.bootstrapNodes
BootstrapNodes == <<"n1", "n2">>
\* the callers of distributeRewards: the RewardScheduler timer and an operator
Callers == {"timer"}
Operators == {"operator"}

\* config.rewardRate = RewardRateNum / RewardRateDen tokens per byte
RewardRateNum == 1
RewardRateDen == 10
\* performance.uptime / 100 and 1 - performance.averageLatency / 1000
UptimeDen == 100
LatencyDen == 1000
\* the stake multiplier is capped at StakeMultCap
StakeMultCap == 2
\* config.minStake, config.maxRewardPerDay, config.initialSupply, in tokens
MinStakeTokens == 2
MaxRewardPerDayTokens == 4
InitialSupplyTokens == 6
\* recordTransaction keeps the last TxRetention transactions
TxRetention == 10000

\* TrafficRouter: this.routeTimeout (ms) and this.maxCacheSize
routeTimeout == 300000
maxCacheSize == 1000
\* the peers of the node: their NodeInfo as registered at the handshake
Peers == {"p1", "p2"}
PeerOrder == <<"p1", "p2">>
PeerBandwidth(p) ==
  IF p = "p1" THEN [download |-> 100, latency |-> 25, uptime |-> 100]
  ELSE [download |-> 200, latency |-> 50, uptime |-> 100]
PeerReputation(p) == IF p = "p1" THEN 95 ELSE 98
PeerRegion(p) == IF p = "p1" THEN "eu" ELSE "us"

\* one token, in ledger units: the common denominator of the reward formula
Scale == RewardRateDen * (2 * MinStakeTokens) * UptimeDen * LatencyDen
MinStake == MinStakeTokens * Scale
MaxRewardPerDay == MaxRewardPerDayTokens * Scale
InitialSupply == InitialSupplyTokens * Scale

\* bounds of the model: the largest amount a call is given (tokens), the length
\* of the log up to which calls are taken, the caps of the two accounting
\* counters, and the largest stake a negative unstake may build up (tokens)
MaxAmount == 2
MaxTx == 3
MaxBytes == 10
MaxSessions == 3
MaxStaked == 3
\* bounds of the router model: the clock readings (in steps of half a
\* routeTimeout), the ids generated, and the findRoute calls suspended at a time
MaxTicks == 2
MaxIssued == 3
MaxPending == 1
\* the packets sendPacket forwards on one route, and those in flight at a time
MaxPackets == 2
MaxSending == 1

\* inputs.  Amounts are negative, below minStake, minStake, and above; a zero
\* amount behaves in stakeTokens like the other amounts below minStake
Amounts == {a * Scale : a \in (-1..MaxAmount) \ {0}}
ByteInputs == {10}
PerfInputs == {[uptime |-> 100, averageLatency |-> 0]}
NoPerf == [uptime |-> 0, averageLatency |-> 0]
Keys == {"none", "pem"}
\* findRoute inputs: destinations (client ids, numbered), and requirements with
\* and without an algorithm
Dests == {1}
NoAlgorithm == "default"
Requirements == {[algorithm |-> NoAlgorithm], [algorithm |-> "lowestLatency"]}
\* requirements that name each algorithm of the optimizer, and none
Algorithms == {"shortestPath", "lowestLatency", "highestBandwidth", "balanced"}
AlgorithmRequirements == {[algorithm |-> a] : a \in Algorithms \cup {NoAlgorithm}}
\* the candidates the optimizer is checked on: the peers in either order of
\* registration, with bandwidth profiles from nothing to beyond the norms
\* (download of 100, latency of 1000) and the same reputation
CandidateProfiles == [download : {0, 100, 300}, latency : {0, 100, 2000}, uptime : {100}]
CandidateOrders == {PeerOrder, [i \in DOMAIN PeerOrder |-> PeerOrder[Len(PeerOrder) + 1 - i]]}
CandidateReputation == 50
\* requirements with hard filters: the peers of the model pass some, one, none
FilterRequirements ==
  {[algorithm |-> NoAlgorithm],
   [algorithm |-> NoAlgorithm, minBandwidth |-> 150],
   [algorithm |-> NoAlgorithm, maxLatency |-> 30],
   [algorithm |-> NoAlgorithm, regions |-> {"us"}],
   [algorithm |-> NoAlgorithm, minBandwidth |-> 150, maxLatency |-> 30],
   [algorithm |-> NoAlgorithm, maxLatency |-> 0]}
\* a BANDWIDTH_REPORT payload: the reporter's bandwidth has degraded
BandwidthReports == {[download |-> 10, latency |-> 500, uptime |-> 100]}
ClockStep == routeTimeout \div 2
\* a HEARTBEAT payload: the bandwidth the peer measures
Heartbeats == {[download |-> 50, latency |-> 80, uptime |-> 100]}
\* the id of the handshake message a peer sends after the one that registered
\* it, and the versions of its payload: as sent, and as altered on the way
HandshakeIds == {1}
HandshakeVersions == {"1.0.0", "0.0.0"}
\* packet.payload.length of the packets given to sendPacket: none, some
PayloadLengths == {0, 100}

\* the arguments calculateRewards is checked on: the stake of a node (tokens; below
\* minStake, up to and beyond the stake at which the multiplier is capped), its
\* counters and its performance
RewardStakes == 0..(MaxStaked + 2)
RewardBytes == {0, 5, MaxBytes}
RewardSessions == 0..MaxSessions
RewardPerfInputs == [uptime : {0, 50, 100}, averageLatency : {0, 500, 1000, 1500}]

VARIABLES
  privateKey,        \* config.privateKey: "pem" a usable PEM key, "none" absent
  balances,          \* this.balances, read through getBalance (absent = 0)
  stakes,            \* this.stakes, read through getStake (absent = 0)
  stakeOrder,        \* the keys of this.stakes in insertion order
  transactions,      \* this.transactions
  recorded,          \* history: the recordTransaction calls since the initial state
  nodePerformance,   \* this.nodePerformance
  bandwidthProvided, \* this.bandwidthProvided
  sessionsServed,    \* this.sessionsServed
  runs,              \* the distributeRewards calls in flight, per caller
  result,            \* what the last call returned (ok) or threw
  emitted,           \* the events emitted by the last step
  roundTrip,         \* history: the state before a successful stake
  now,               \* the clock: what new Date() and Date.now() read (ms)
  nodeRegistry,      \* P2PNetworkManager.nodeRegistry, in insertion order (the
                     \* lastSeen of its entries, which nothing reads, left out)
  connectedPeers,    \* the keys of P2PNetworkManager.connectedPeers
  nodeCapacities,    \* LoadBalancer.nodeCapacities (0: no entry)
  activeRoutes,      \* TrafficRouter.activeRoutes: route id -> route
  clientSessions,    \* TrafficRouter.clientSessions: session id -> session
  routeCache,        \* TrafficRouter.routeCache: <<key, route>> in insertion order
  pending,           \* the findRoute calls suspended at their await, oldest first
  issued,            \* history: the ids generated since the initial state
  routed,            \* what the last findRoute call returned
  cacheUse,          \* history: the keys of routeCache, least recently used first
  sending,           \* the packets handed to sendMessage and not yet delivered
  bandwidthUsed,     \* route.bandwidthUsed of the routes, by route id (absent: unset)
  peerInfo,          \* the values of P2PNetworkManager.connectedPeers
  verified,          \* history: the peers whose signed handshake was verified
  received,          \* history: the handshake messages handled
  dbNodes,           \* the rows of the nodes table: node id -> row
  dbSessions,        \* the rows of the sessions table: session id -> row
  dbRewards,         \* the rows of the rewards table: reward id -> row
  requests,          \* the reward:claim handlers suspended at an await
  claimLog,          \* history: the requests that have broadcast reward:claimed
  client,            \* the fields of the NetworkNeuronClient
  sockets,           \* the WebSockets the client has created, by number
  timers,            \* the reconnect timers set and not yet fired
  tunnels            \* the startTunnel calls: their promise, listeners and timer

\* what sendPacket writes besides result and emitted, and what the message
\* handlers of the network manager write besides the registry
sendVars == <<sending, bandwidthUsed>>
peerVars == <<peerInfo, verified, received>>
\* the dashboard backend (WebSocketService on DatabaseService), and the client
backendVars == <<dbNodes, dbSessions, dbRewards, requests, claimLog>>
clientVars == <<client, sockets, timers, tunnels>>
networkVars == <<now, nodeRegistry, connectedPeers, nodeCapacities, activeRoutes,
                 clientSessions, routeCache, pending, issued, routed, cacheUse,
                 sendVars, peerVars>>
routerVars == <<networkVars, backendVars, clientVars>>
vars == <<privateKey, balances, stakes, stakeOrder, transactions, recorded,
          nodePerformance, bandwidthProvided, sessionsServed, runs, result, emitted,
          roundTrip, routerVars>>
ledgerVars == <<balances, stakes, stakeOrder, transactions, recorded>>
accountingVars == <<nodePerformance, bandwidthProvided, sessionsServed>>
\* what a call on the router or the network manager leaves alone
incentiveVars == <<privateKey, ledgerVars, accountingVars, runs, roundTrip>>

(***************************************************************************)
(* Helpers                                                                 *)
(***************************************************************************)
RECURSIVE SumOver(_, _)
SumOver(f, S) == IF S = {} THEN 0
                 ELSE LET x == CHOOSE y \in S : TRUE
                      IN f[x] + SumOver(f, S \ {x})

Min(a, b) == IF a < b THEN a ELSE b
Max(a, b) == IF a > b THEN a ELSE b
SeqToSet(s) == {s[i] : i \in 1..Len(s)}

getBalance(nodeId) == balances[nodeId]
getStake(nodeId) == stakes[nodeId]

\* CryptoManager.sign throws unless the key parses as a PEM private key
SignThrows == privateKey # "pem"
\* the signature of a message: the signed text (its fields) and the key
sign(message) == [message |-> message, key |-> privateKey]

recordTransactionKeepOldest(txs, tx) ==
  LET pushed == Append(txs, tx)
  IN IF Len(pushed) > TxRetention THEN SubSeq(pushed, 1, TxRetention) ELSE pushed
\* config.publicKey: the public half of the configured key pair
PublicKeyOf(key) == IF key = "pem" THEN "pem.pub" ELSE "none"
\* CryptoManager.verify: the signature was made over this message with the
\* private half of publicKey
verify(message, signature, publicKey) ==
  signature.message = message /\ PublicKeyOf(signature.key) = publicKey

\* recordTransaction: push, then keep the last TxRetention entries
recordTransaction(txs, tx) ==
  LET pushed == Append(txs, tx)
  IN IF Len(pushed) > TxRetention
     THEN SubSeq(pushed, Len(pushed) - TxRetention + 1, Len(pushed))
     ELSE pushed

\* Map.set on this.stakes: a new key goes to the end of the iteration order
StakesKeySet(nodeId) ==
  IF nodeId \in SeqToSet(stakeOrder) THEN stakeOrder ELSE Append(stakeOrder, nodeId)

\* No distributeRewards call is suspended at an await.  The promise a run awaits
\* is already settled, so its continuation is a microtask, and Node.js runs every
\* microtask before the next task: a call arriving as a task of its own (a timer
\* tick, a request) finds no run in flight.
NoRunInFlight == \A c \in DOMAIN runs : runs[c].pc = "idle"

\* a run: the rewards computed by its first loop, the index its second loop
\* continues from, the nodes whose reward it could not pay (console.warn), and
\* history: whether it started right after another run had returned
NoRun == [pc |-> "idle", rewards |-> <<>>, next |-> 0, skipped |-> {}, repeat |-> FALSE]
NoRoundTrip == [phase |-> "none"]
Ok == [status |-> "ok", code |-> "none", cause |-> "none"]
Pending == [status |-> "pending", code |-> "none", cause |-> "none"]
\* every catch block rethrows as NetworkNeuronError(code), the message of the
\* error it caught (cause) kept in the new message
Thrown(code, cause) == [status |-> "error", code |-> code, cause |-> cause]

(***************************************************************************)
(* Initial state: constructor and initializeTokenSystem                    *)
(***************************************************************************)
initializeTokenSystem ==
  [a \in Accounts |->
     IF a = RewardPoolId THEN InitialSupply \div 2
     ELSE IF a \in SeqToSet(BootstrapNodes)
          THEN InitialSupply \div (Len(BootstrapNodes) + 1)
          ELSE 0]

InitLedger ==
  /\ balances = initializeTokenSystem
  /\ stakes = [n \in Nodes |-> 0]
  /\ stakeOrder = <<>>
  /\ transactions = <<>>
  /\ recorded = 0

InitAccounting ==
  /\ nodePerformance = [n \in Nodes |-> NoPerf]
  /\ bandwidthProvided = [n \in Nodes |-> 0]
  /\ sessionsServed = [n \in Nodes |-> 0]

\* the backend with empty tables and no request in progress
InitBackend ==
  /\ dbNodes = <<>>
  /\ dbSessions = <<>>
  /\ dbRewards = <<>>
  /\ requests = <<>>
  /\ claimLog = <<>>
\* NetworkNeuronClient constructor: no socket (ws 0), nothing scheduled; of the
\* config, autoReconnect and maxRetries
DefaultMaxRetries == 5
NewClient(autoReconnect, maxRetries) ==
  [autoReconnect |-> autoReconnect, maxRetries |-> maxRetries,
   isConnected |-> FALSE, isConnecting |-> FALSE, retryCount |-> 0,
   tunnelActive |-> FALSE, hasRoute |-> FALSE, ws |-> 0]
InitClient ==
  /\ client = NewClient(TRUE, DefaultMaxRetries)
  /\ sockets = <<>>
  /\ timers = 0
  /\ tunnels = <<>>
\* no call has been made yet; callers are those that may call distributeRewards
InitCalls(callers) ==
  /\ runs = [c \in callers |-> NoRun]
  /\ result = Ok
  /\ emitted = <<>>
  /\ roundTrip = NoRoundTrip

\* TrafficRouter constructor; the peers have connected and completed their
\* handshake (handlePeerConnect, handleHandshake)
NodeInfo(p) ==
  [publicKey |-> PublicKeyOf("pem"), id |-> p, isActive |-> TRUE,
   bandwidth |-> PeerBandwidth(p), reputation |-> PeerReputation(p),
   region |-> PeerRegion(p)]
\* the entry handlePeerConnect stores in connectedPeers: lastSeen, and bandwidth
\* null (connectedAt and reputation, which nothing reads, left out)
NoBandwidth == [download |-> 0, latency |-> 0, uptime |-> 0]
PeerEntry(time) == [bandwidth |-> NoBandwidth, lastSeen |-> time]
NoRouted == [status |-> "none"]
\* the handshake message of a peer: its payload signed with the key of the peer
HandshakePayload(peerId, version) == [version |-> version, nodeInfo |-> NodeInfo(peerId)]
HandshakeMessage(peerId, id, version) ==
  [signature |-> [message |-> HandshakePayload(peerId, "1.0.0"), key |-> "pem"],
   id |-> id, source |-> peerId, payload |-> HandshakePayload(peerId, version)]

\* the network manager at time 0, the peers of the set connected and the
\* registry filled by their handshakes (message 0 of each)
InitPeers(registry, peers) ==
  /\ now = 0
  /\ nodeRegistry = registry
  /\ connectedPeers = peers
  /\ nodeCapacities = [p \in Peers |-> 0]
  /\ peerInfo = [p \in peers |-> PeerEntry(0)]
  /\ verified = peers
  /\ received = {HandshakeMessage(p, 0, "1.0.0") : p \in peers}
  /\ sending = <<>>
  /\ bandwidthUsed = <<>>
InitNetwork == InitPeers([i \in DOMAIN PeerOrder |-> NodeInfo(PeerOrder[i])], Peers)
InitTables ==
  /\ activeRoutes = <<>>
  /\ clientSessions = <<>>
  /\ routeCache = <<>>
  /\ pending = <<>>
  /\ issued = 0
  /\ routed = NoRouted
  /\ cacheUse = <<>>
InitRouter == InitNetwork /\ InitTables

Init ==
  /\ privateKey \in Keys
  /\ InitLedger
  /\ InitAccounting
  /\ InitBackend
  /\ InitClient
  /\ InitCalls(Callers)
  /\ InitRouter

(***************************************************************************)
(* stakeTokens                                                             *)
(***************************************************************************)
StakeBalancesNoDebit(nodeId, amount) == balances
StakeBalances(nodeId, amount) ==
  [balances EXCEPT ![nodeId] = getBalance(nodeId) - amount]
StakeStakes(nodeId, amount) ==
  [stakes EXCEPT ![nodeId] = getStake(nodeId) + amount]
StakeTx(nodeId, amount) ==
  [type |-> "stake", from |-> nodeId, to |-> StakePoolId, amount |-> amount,
   signature |-> sign(<<nodeId, amount, "stake">>)]

stakeTokens(nodeId, amount) ==
  /\ NoRunInFlight
  /\ recorded < MaxTx
  /\ UNCHANGED <<privateKey, accountingVars, runs>>
  /\ IF getBalance(nodeId) < amount
     THEN /\ result' = Thrown("STAKING_ERROR", "INSUFFICIENT_BALANCE")
          /\ emitted' = <<>>
          /\ roundTrip' = NoRoundTrip
          /\ UNCHANGED ledgerVars
     ELSE IF amount < MinStake
     THEN /\ result' = Thrown("STAKING_ERROR", "MIN_STAKE_NOT_MET")
          /\ emitted' = <<>>
          /\ roundTrip' = NoRoundTrip
          /\ UNCHANGED ledgerVars
     ELSE /\ balances' = StakeBalances(nodeId, amount)
          /\ stakes' = StakeStakes(nodeId, amount)
          /\ stakeOrder' = StakesKeySet(nodeId)
          /\ IF SignThrows
             THEN /\ result' = Thrown("STAKING_ERROR", "AUTHENTICATION_ERROR")
                  /\ emitted' = <<>>
                  /\ roundTrip' = NoRoundTrip
                  /\ UNCHANGED <<transactions, recorded>>
             ELSE /\ transactions' = recordTransaction(transactions, StakeTx(nodeId, amount))
                  /\ recorded' = recorded + 1
                  /\ result' = Ok
                  /\ emitted' = <<"transaction:recorded", "stake:created">>
                  /\ roundTrip' = [phase |-> "staked", nodeId |-> nodeId, amount |-> amount,
                                   balances |-> balances, stakes |-> stakes,
                                   transactions |-> transactions]

(***************************************************************************)
(* unstakeTokens                                                           *)
(***************************************************************************)
UnstakeBalancesNoCredit(nodeId, amount) == balances
UnstakeBalances(nodeId, amount) ==
  [balances EXCEPT ![nodeId] = getBalance(nodeId) + amount]
UnstakeStakes(nodeId, amount) ==
  [stakes EXCEPT ![nodeId] = getStake(nodeId) - amount]
UnstakeTx(nodeId, amount) ==
  [type |-> "unstake", from |-> StakePoolId, to |-> nodeId, amount |-> amount,
   signature |-> sign(<<nodeId, amount, "unstake">>)]
\* history: this call directly follows a successful stake of the same node and amount
RoundTripNext(nodeId, amount) ==
  IF roundTrip.phase = "staked" /\ roundTrip.nodeId = nodeId /\ roundTrip.amount = amount
  THEN [roundTrip EXCEPT !.phase = "unstaked"]
  ELSE NoRoundTrip

unstakeTokens(nodeId, amount) ==
  /\ NoRunInFlight
  /\ recorded < MaxTx
  /\ getStake(nodeId) - amount <= MaxStaked * Scale
  /\ UNCHANGED <<privateKey, accountingVars, runs>>
  /\ roundTrip' = RoundTripNext(nodeId, amount)
  /\ IF getStake(nodeId) < amount
     THEN /\ result' = Thrown("UNSTAKING_ERROR", "INSUFFICIENT_STAKE")
          /\ emitted' = <<>>
          /\ UNCHANGED ledgerVars
     ELSE /\ balances' = UnstakeBalances(nodeId, amount)
          /\ stakes' = UnstakeStakes(nodeId, amount)
          /\ stakeOrder' = StakesKeySet(nodeId)
          /\ IF SignThrows
             THEN /\ result' = Thrown("UNSTAKING_ERROR", "AUTHENTICATION_ERROR")
                  /\ emitted' = <<>>
                  /\ UNCHANGED <<transactions, recorded>>
             ELSE /\ transactions' = recordTransaction(transactions, UnstakeTx(nodeId, amount))
                  /\ recorded' = recorded + 1
                  /\ result' = Ok
                  /\ emitted' = <<"transaction:recorded", "stake:removed">>

(***************************************************************************)
(* Accounting: updateNodePerformance, recordBandwidthProvided,             *)
(* recordSessionServed                                                     *)
(***************************************************************************)
updateNodePerformance(nodeId, metrics) ==
  /\ NoRunInFlight
  /\ nodePerformance' = [nodePerformance EXCEPT ![nodeId] = metrics]
  /\ result' = Ok
  /\ emitted' = <<"performance:updated">>
  /\ roundTrip' = NoRoundTrip
  /\ UNCHANGED <<privateKey, ledgerVars, bandwidthProvided, sessionsServed, runs>>

recordBandwidthProvided(nodeId, bytes) ==
  /\ NoRunInFlight
  /\ bandwidthProvided[nodeId] + bytes <= MaxBytes
  /\ bandwidthProvided' = [bandwidthProvided EXCEPT ![nodeId] = @ + bytes]
  /\ result' = Ok
  /\ emitted' = <<"bandwidth:recorded">>
  /\ roundTrip' = NoRoundTrip
  /\ UNCHANGED <<privateKey, ledgerVars, nodePerformance, sessionsServed, runs>>

recordSessionServed(nodeId) ==
  /\ NoRunInFlight
  /\ sessionsServed[nodeId] < MaxSessions
  /\ sessionsServed' = [sessionsServed EXCEPT ![nodeId] = @ + 1]
  /\ result' = Ok
  /\ emitted' = <<"session:served">>
  /\ roundTrip' = NoRoundTrip
  /\ UNCHANGED <<privateKey, ledgerVars, nodePerformance, bandwidthProvided, runs>>

(***************************************************************************)
(* calculateRewards                                                        *)
(***************************************************************************)
\* Math.min(1 + (stake / minStake) * 0.5, 2), as a multiple of 1 / (2 * MinStakeTokens);
\* stakes are whole numbers of tokens
StakeMultiplierNum(stake) ==
  Min(2 * MinStake + stake, StakeMultCap * 2 * MinStake) \div Scale
\* Math.max(0, 1 - averageLatency / 1000), as a multiple of 1 / LatencyDen
LatencyBonusNum(averageLatency) == Max(0, LatencyDen - averageLatency)
\* sessionsServed || 1
SessionFactor(sessions) == IF sessions = 0 THEN 1 ELSE sessions

\* bandwidthReward * stakeMultiplier * uptimeBonus * latencyBonus * sessions, in
\* ledger units: the denominators of the factors multiply to Scale
TotalReward(bytes, sessions, stake, performance) ==
  bytes * RewardRateNum * StakeMultiplierNum(stake) * performance.uptime
    * LatencyBonusNum(performance.averageLatency) * SessionFactor(sessions)

CappedRewardNoCap(totalReward) == totalReward
CappedReward(totalReward) == Min(totalReward, MaxRewardPerDay)

calculateRewardsAnyStake(nodeId) ==
  [nodeId |-> nodeId,
   amount |-> CappedReward(TotalReward(bandwidthProvided[nodeId], sessionsServed[nodeId],
                                       getStake(nodeId), nodePerformance[nodeId])),
   bandwidthProvided |-> bandwidthProvided[nodeId],
   sessionsServed |-> sessionsServed[nodeId],
   stake |-> getStake(nodeId)]
calculateRewards(nodeId) ==
  IF getStake(nodeId) < MinStake
  THEN [nodeId |-> nodeId, amount |-> 0, bandwidthProvided |-> 0, sessionsServed |-> 0,
        stake |-> getStake(nodeId)]
  ELSE [nodeId |-> nodeId,
        amount |-> CappedReward(TotalReward(bandwidthProvided[nodeId], sessionsServed[nodeId],
                                            getStake(nodeId), nodePerformance[nodeId])),
        bandwidthProvided |-> bandwidthProvided[nodeId],
        sessionsServed |-> sessionsServed[nodeId],
        stake |-> getStake(nodeId)]

(***************************************************************************)
(* distributeRewards and distributeReward                                  *)
(***************************************************************************)
\* the first loop of distributeRewards: one reward per key of this.stakes, in
\* insertion order, whose stake is at least minStake
RECURSIVE CollectRewards(_)
CollectRewards(order) ==
  IF order = <<>> THEN <<>>
  ELSE IF getStake(Head(order)) >= MinStake
       THEN <<calculateRewards(Head(order))>> \o CollectRewards(Tail(order))
       ELSE CollectRewards(Tail(order))

\* the second loop skips the rewards whose amount is not positive: the index of
\* the next reward it hands to distributeReward, 0 when none is left
NextPayable(rewards, from) ==
  LET S == {i \in from..Len(rewards) : rewards[i].amount > 0}
  IN IF S = {} THEN 0 ELSE CHOOSE i \in S : \A j \in S : i <= j

\* distributeReward: the two balances.set calls (the second reads the first)
RewardBalances(reward) ==
  LET debited == [balances EXCEPT ![RewardPoolId] = getBalance(RewardPoolId) - reward.amount]
  IN [debited EXCEPT ![reward.nodeId] = debited[reward.nodeId] + reward.amount]
RewardTx(reward) ==
  [type |-> "reward", from |-> RewardPoolId, to |-> reward.nodeId, amount |-> reward.amount,
   signature |-> sign(<<"reward", reward.nodeId, reward.amount>>)]

\* The second loop from index `from` up to its next await, or to the end of
\* distributeRewards.  distributeReward runs synchronously inside the call and
\* the await of its promise suspends the run.
PayFrom(c, rewards, from, skipped, repeat) ==
  LET i == NextPayable(rewards, from)
  IN /\ roundTrip' = NoRoundTrip
     /\ UNCHANGED <<privateKey, accountingVars, stakes, stakeOrder>>
     /\ IF i = 0
        THEN \* emit rewards:distributed and return
             /\ runs' = [runs EXCEPT ![c] = NoRun]
             /\ result' = Ok
             /\ emitted' = <<"rewards:distributed">>
             /\ UNCHANGED <<balances, transactions, recorded>>
        ELSE IF getBalance(RewardPoolId) < rewards[i].amount
        THEN \* console.warn and return: the reward is not paid
             /\ runs' = [runs EXCEPT ![c] = [pc |-> "paying", rewards |-> rewards,
                                             next |-> i + 1,
                                             skipped |-> skipped \cup {rewards[i].nodeId},
                                             repeat |-> repeat]]
             /\ result' = Pending
             /\ emitted' = <<>>
             /\ UNCHANGED <<balances, transactions, recorded>>
        ELSE /\ balances' = RewardBalances(rewards[i])
             /\ IF SignThrows
                THEN \* INDIVIDUAL_REWARD_ERROR, rethrown by distributeRewards
                     /\ runs' = [runs EXCEPT ![c] = NoRun]
                     /\ result' = Thrown("REWARD_DISTRIBUTION_ERROR", "INDIVIDUAL_REWARD_ERROR")
                     /\ emitted' = <<>>
                     /\ UNCHANGED <<transactions, recorded>>
                ELSE /\ transactions' = recordTransaction(transactions, RewardTx(rewards[i]))
                     /\ recorded' = recorded + 1
                     /\ runs' = [runs EXCEPT ![c] = [pc |-> "paying", rewards |-> rewards,
                                                     next |-> i + 1, skipped |-> skipped,
                                                     repeat |-> repeat]]
                     /\ result' = Pending
                     /\ emitted' = <<"transaction:recorded", "reward:distributed">>

\* the totalDistributed distributeRewards returns and emits: the reduce over
\* the rewards of its first loop
totalDistributed(rewards) ==
  SumOver([i \in DOMAIN rewards |-> rewards[i].amount], DOMAIN rewards)

\* distributeRewards from its entry up to its first await
distributeRewardsCall(c) ==
  /\ recorded < MaxTx
  /\ IF getBalance(RewardPoolId) <= 0
     THEN /\ result' = Thrown("REWARD_DISTRIBUTION_ERROR", "INSUFFICIENT_REWARD_POOL")
          /\ emitted' = <<>>
          /\ roundTrip' = NoRoundTrip
          /\ UNCHANGED <<privateKey, ledgerVars, accountingVars, runs>>
     ELSE PayFrom(c, CollectRewards(stakeOrder), 1, {}, emitted = <<"rewards:distributed">>)

\* a call of distributeRewards arriving as a task of its own
distributeRewards(c) ==
  /\ NoRunInFlight
  /\ distributeRewardsCall(c)

\* A call of distributeRewards made while another call is suspended at its await:
\* the caller runs in the same turn of the event loop (two calls with no await
\* between them, a call from a promise continuation).  Neither distributeRewards
\* nor RewardScheduler.start holds a flag or a lock that rejects or queues it.
distributeRewardsInFlight(c) ==
  /\ ~NoRunInFlight
  /\ runs[c].pc = "idle"
  /\ distributeRewardsCall(c)

\* the run resumes after an await
distributeRewardsResume(c) ==
  /\ runs[c].pc = "paying"
  /\ PayFrom(c, runs[c].rewards, runs[c].next, runs[c].skipped, runs[c].repeat)

(***************************************************************************)
(* TrafficRouter: route cache, path optimizer                              *)
(***************************************************************************)
\* a function without the keys in S, and with one more key
Without(f, S) == [k \in DOMAIN f \ S |-> f[k]]
With(f, k, v) == [j \in DOMAIN f \cup {k} |-> IF j = k THEN v ELSE f[j]]
\* routeCache.delete
CacheDelete(cache, key) == SelectSeq(cache, LAMBDA entry : entry.key # key)

\* generateCacheKey: destination and the hash of JSON.stringify(requirements)
generateCacheKey(destination, requirements) == <<destination, requirements>>
\* routeCache.has / get: the index of the key in insertion order, 0 when absent
CacheIndex(cache, key) ==
  LET S == {i \in DOMAIN cache : cache[i].key = key}
  IN IF S = {} THEN 0 ELSE CHOOSE i \in S : TRUE

\* requirements.minBandwidth && ..., requirements.maxLatency && ...: a filter
\* applies when the field is there and is not 0; requirements.regions && ...
\* applies when the field is there
FilterSet(requirements, field) ==
  /\ field \in DOMAIN requirements
  /\ field = "regions" \/ requirements[field] # 0
\* getAvailableNodes: the registered nodes with isActive that no filter rejects
getAvailableNodes(requirements) ==
  SelectSeq(nodeRegistry,
            LAMBDA node :
              /\ node.isActive
              /\ ~(/\ FilterSet(requirements, "minBandwidth")
                   /\ node.bandwidth.download < requirements.minBandwidth)
              /\ ~(/\ FilterSet(requirements, "maxLatency")
                   /\ node.bandwidth.latency > requirements.maxLatency)
              /\ ~(/\ FilterSet(requirements, "regions")
                   /\ node.region \notin requirements.regions))

\* findBalancedPath: 0.4 * download / 100 + 0.3 * (1 - latency / 1000)
\* + 0.2 * reputation / 100 + 0.1 * uptime / 100, times 10000
BalancedScore(node) ==
  40 * node.bandwidth.download + 3 * (1000 - node.bandwidth.latency)
    + 20 * node.reputation + 10 * node.bandwidth.uptime
\* the head of a stable sort: the first node no other node beats
BestBy(nodes, score) ==
  nodes[CHOOSE i \in DOMAIN nodes :
          /\ \A j \in DOMAIN nodes : score[j] <= score[i]
          /\ \A j \in 1..(i - 1) : score[i] > score[j]]
PathThrough(bestNode) ==
  [nodes |-> <<bestNode.id>>,
   latency |-> IF bestNode.bandwidth.latency = 0 THEN 100 ELSE bestNode.bandwidth.latency,
   bandwidth |-> IF bestNode.bandwidth.download = 0 THEN 10 ELSE bestNode.bandwidth.download,
   cost |-> 1]
findBalancedPath(availableNodes) ==
  PathThrough(BestBy(availableNodes,
                     [i \in DOMAIN availableNodes |-> BalancedScore(availableNodes[i])]))
findLowestLatency(availableNodes) ==
  PathThrough(BestBy(availableNodes,
                     [i \in DOMAIN availableNodes |-> 0 - availableNodes[i].bandwidth.latency]))
\* findShortestPath: reduce keeps the first node of the greatest download - latency
findShortestPath(availableNodes) ==
  PathThrough(BestBy(availableNodes,
                     [i \in DOMAIN availableNodes |->
                        availableNodes[i].bandwidth.download
                          - availableNodes[i].bandwidth.latency]))
findHighestBandwidth(availableNodes) ==
  PathThrough(BestBy(availableNodes,
                     [i \in DOMAIN availableNodes |-> availableNodes[i].bandwidth.download]))
\* findOptimalPath: requirements.algorithm || 'balanced', for the four
\* algorithms of optimizationAlgorithms
findOptimalPath(destination, availableNodes, requirements) ==
  CASE requirements.algorithm = "shortestPath" -> findShortestPath(availableNodes)
    [] requirements.algorithm = "lowestLatency" -> findLowestLatency(availableNodes)
    [] requirements.algorithm = "highestBandwidth" -> findHighestBandwidth(availableNodes)
    [] OTHER -> findBalancedPath(availableNodes)

\* cacheRoute: at maxCacheSize entries delete the first key of the Map, then set
\* (a key already in the Map keeps its place)
cacheRouteNoEviction(cache, key, route) == Append(cache, [key |-> key, route |-> route])
cacheRouteSkipped(cache, key, route) == cache
cacheRoute(cache, key, route) ==
  LET kept == IF Len(cache) >= maxCacheSize THEN Tail(cache) ELSE cache
      i == CacheIndex(kept, key)
  IN IF i = 0 THEN Append(kept, [key |-> key, route |-> route])
     ELSE [kept EXCEPT ![i] = [key |-> key, route |-> route]]
\* invalidateRouteCache
invalidateRouteCacheKeepAll(cache, nodeId) == cache
invalidateRouteCache(cache, nodeId) ==
  SelectSeq(cache, LAMBDA entry : nodeId \notin SeqToSet(entry.route.nodes))
\* cleanupRoute: delete the route when it has expired
cleanupRoute(routes, routeId) ==
  IF routeId \in DOMAIN routes /\ routes[routeId].expiresAt < now
  THEN Without(routes, {routeId})
  ELSE routes

\* history: the order of last use of the keys in the cache
UseOrder(use, cache, key) ==
  LET keys == {cache[i].key : i \in DOMAIN cache}
      old == SelectSeq(use, LAMBDA k : k # key /\ k \in keys)
  IN IF key \in keys THEN Append(old, key) ELSE old

(***************************************************************************)
(* TrafficRouter: findRoute, createSession, closeSession                   *)
(***************************************************************************)
\* No findRoute call is suspended at its await.  Peer events and clock ticks
\* arrive as tasks of their own, after every continuation has run.
NoFindInFlight == pending = <<>>

\* the ids a call generates: one for the route it creates, one for its session
IdsOf(kind, hit) == (IF hit THEN 0 ELSE 1) + (IF kind = "session" THEN 1 ELSE 0)
IdsReserved(calls) ==
  LET F[i \in 0..Len(calls)] == IF i = 0 THEN 0 ELSE F[i - 1] + IdsOf(calls[i].kind, FALSE)
  IN F[Len(calls)]

\* createSession after findRoute has returned route: the session is stored
SessionOn(clientId, sessionId, route) ==
  [id |-> sessionId, clientId |-> clientId, nodeId |-> route.nodes[1],
   isActive |-> TRUE, route |-> route]

\* findRoute returns route to its caller, findRoute itself or createSession;
\* ids is the number of ids generated before the return
Return(kind, destination, requirements, route, hit, ids) ==
  /\ routed' = [status |-> "ok", key |-> generateCacheKey(destination, requirements),
                route |-> route, hit |-> hit]
  /\ result' = Ok
  /\ IF kind = "session"
     THEN /\ clientSessions' = With(clientSessions, ids + 1, SessionOn(destination, ids + 1, route))
          /\ issued' = ids + 1
          /\ emitted' = (IF hit THEN <<>> ELSE <<"route:created">>) \o <<"session:created">>
     ELSE /\ issued' = ids
          /\ emitted' = IF hit THEN <<>> ELSE <<"route:created">>
          /\ UNCHANGED clientSessions

\* findRoute (kind "route") or createSession (kind "session") up to the await of
\* findOptimalPath, or to its return on a cache hit or an error
FindRouteCall(kind, destination, requirements) ==
  LET cacheKey == generateCacheKey(destination, requirements)
      i == CacheIndex(routeCache, cacheKey)
      availableNodes == getAvailableNodes(requirements)
      cache == CacheDelete(routeCache, cacheKey)
  IN /\ Len(pending) < MaxPending
     /\ issued + IdsReserved(pending) + IdsOf(kind, i # 0 /\ routeCache[i].route.expiresAt > now)
          <= MaxIssued
     /\ UNCHANGED <<incentiveVars, backendVars, clientVars, sendVars, peerVars, now, nodeRegistry, connectedPeers, nodeCapacities,
                    activeRoutes>>
     /\ IF i # 0 /\ routeCache[i].route.expiresAt > now
        THEN /\ Return(kind, destination, requirements, routeCache[i].route, TRUE, issued)
             /\ cacheUse' = UseOrder(cacheUse, routeCache, cacheKey)
             /\ UNCHANGED <<routeCache, pending>>
        ELSE /\ routeCache' = cache
             /\ cacheUse' = UseOrder(cacheUse, cache, cacheKey)
             /\ UNCHANGED <<clientSessions, issued>>
             /\ IF availableNodes = <<>>
                THEN /\ result' = Thrown(IF kind = "session" THEN "SESSION_CREATION_ERROR"
                                         ELSE "ROUTE_FINDING_ERROR", "ROUTE_NOT_FOUND")
                     /\ emitted' = <<>>
                     /\ routed' = NoRouted
                     /\ UNCHANGED pending
                ELSE /\ pending' = Append(pending,
                                          [kind |-> kind, destination |-> destination,
                                           requirements |-> requirements,
                                           optimalPath |-> findOptimalPath(destination,
                                                             availableNodes, requirements)])
                     /\ result' = Pending
                     /\ emitted' = <<>>
                     /\ routed' = NoRouted

findRoute(destination, requirements) == FindRouteCall("route", destination, requirements)
createSession(clientId, requirements) == FindRouteCall("session", clientId, requirements)

\* the oldest suspended call resumes: the route is created, cached, stored in
\* activeRoutes and returned
findRouteResume ==
  /\ pending # <<>>
  /\ LET call == Head(pending)
         cacheKey == generateCacheKey(call.destination, call.requirements)
         route == [id |-> issued + 1, nodes |-> call.optimalPath.nodes,
                   latency |-> call.optimalPath.latency,
                   bandwidth |-> call.optimalPath.bandwidth,
                   cost |-> call.optimalPath.cost, encrypted |-> TRUE,
                   expiresAt |-> now + routeTimeout]
     IN /\ pending' = Tail(pending)
        /\ routeCache' = cacheRoute(routeCache, cacheKey, route)
        /\ cacheUse' = UseOrder(cacheUse, cacheRoute(routeCache, cacheKey, route), cacheKey)
        /\ activeRoutes' = With(activeRoutes, route.id, route)
        /\ Return(call.kind, call.destination, call.requirements, route, FALSE, issued + 1)
  /\ UNCHANGED <<incentiveVars, backendVars, clientVars, sendVars, peerVars, now, nodeRegistry, connectedPeers,
                 nodeCapacities>>

\* closeSession: an unknown id is ignored
closeSession(sessionId) ==
  /\ IF sessionId \in DOMAIN clientSessions
     THEN /\ clientSessions' = Without(clientSessions, {sessionId})
          /\ activeRoutes' = cleanupRoute(activeRoutes, clientSessions[sessionId].route.id)
          /\ emitted' = (IF activeRoutes' # activeRoutes THEN <<"route:expired">> ELSE <<>>)
                          \o <<"session:closed">>
     ELSE /\ emitted' = <<>>
          /\ UNCHANGED <<clientSessions, activeRoutes>>
  /\ result' = Ok
  /\ routed' = NoRouted
  /\ UNCHANGED <<incentiveVars, backendVars, clientVars, sendVars, peerVars, now, nodeRegistry, connectedPeers, nodeCapacities,
                 routeCache, pending, issued, cacheUse>>

(***************************************************************************)
(* TrafficRouter: sendPacket, forwardPacket                                *)
(***************************************************************************)
\* validatePacket, for packets with id, source, destination and a route with
\* nodes: the payload must not be empty
validatePacket(packet) == packet.payloadLength # 0
\* the check of sendPacket: the route is in activeRoutes and has not expired
RouteLive(routes, routeId) ==
  routeId \in DOMAIN routes /\ ~(routes[routeId].expiresAt < now)
\* the number that is not one: what adding undefined gives
NaN == -1
\* route.bandwidthUsed || 0: unset, 0 and NaN give 0
UsedBytes(used, routeId) ==
  IF routeId \in DOMAIN used /\ used[routeId] # NaN THEN used[routeId] ELSE 0
\* a + b of numbers
Plus(a, b) == IF a = NaN \/ b = NaN THEN NaN ELSE a + b
\* packet.payload.length as updateRouteStats is given it: sendPacket has
\* replaced the payload of an encrypted packet by the object encryptPacket
\* returns, {encrypted, iv, tag, key}, which has no length
PayloadLength(packet) == IF packet.encrypted THEN NaN ELSE packet.payloadLength
\* the nodes of the route in the packet forwardPacket hands to sendMessage
forwardPacketNodesUncut(route) == route.nodes
forwardPacketNodes(route) == Tail(route.nodes)

\* sendPacket up to the await of sendMessage in forwardPacket, or to the error
\* it throws; encrypts: crypto.encrypt returns, where it may as well throw
sendPacket(packet, encrypts) ==
  /\ Len(sending) < MaxSending
  /\ UsedBytes(bandwidthUsed, packet.route.id) < MaxPackets * packet.payloadLength
       \/ packet.payloadLength = 0
  /\ IF ~validatePacket(packet)
     THEN /\ result' = Thrown("PACKET_SEND_ERROR", "INVALID_PACKET")
          /\ UNCHANGED sending
     ELSE IF ~RouteLive(activeRoutes, packet.route.id)
     THEN /\ result' = Thrown("PACKET_SEND_ERROR", "ROUTE_EXPIRED")
          /\ UNCHANGED sending
     ELSE IF packet.encrypted /\ ~encrypts
     THEN /\ result' = Thrown("PACKET_SEND_ERROR", "ENCRYPTION_ERROR")
          /\ UNCHANGED sending
     ELSE /\ sending' = Append(sending,
                               [bytes |-> PayloadLength(packet),
                                nodes |-> forwardPacketNodes(activeRoutes[packet.route.id]),
                                routeId |-> packet.route.id,
                                payloadLength |-> packet.payloadLength,
                                nextNodeId |-> activeRoutes[packet.route.id].nodes[1]])
          /\ result' = Pending
  /\ emitted' = <<>>
  /\ routed' = NoRouted
  /\ UNCHANGED <<incentiveVars, backendVars, clientVars, peerVars, bandwidthUsed, now, nodeRegistry, connectedPeers,
                 nodeCapacities, activeRoutes, clientSessions, routeCache, pending, issued,
                 cacheUse>>

\* sendMessage has written the packet to the stream of the next node, or has
\* failed to dial it; after a delivery updateRouteStats adds the bytes to the
\* route if it is still in activeRoutes, and packet:sent is emitted
sendPacketResume(delivered) ==
  /\ sending # <<>>
  /\ LET packet == Head(sending)
         used == Plus(UsedBytes(bandwidthUsed, packet.routeId), packet.bytes)
     IN /\ sending' = Tail(sending)
        /\ IF ~delivered
           THEN /\ result' = Thrown("PACKET_SEND_ERROR", "PACKET_FORWARD_ERROR")
                /\ emitted' = <<>>
                /\ UNCHANGED bandwidthUsed
           ELSE /\ result' = Ok
                /\ IF packet.routeId \in DOMAIN activeRoutes
                   THEN /\ bandwidthUsed' = With(bandwidthUsed, packet.routeId, used)
                        /\ emitted' =
                             (IF used # NaN /\ 5 * used > 4 * activeRoutes[packet.routeId].bandwidth
                              THEN <<"route:bandwidth_warning">> ELSE <<>>)
                               \o <<"packet:sent">>
                   ELSE /\ emitted' = <<"packet:sent">>
                        /\ UNCHANGED bandwidthUsed
  /\ routed' = NoRouted
  /\ UNCHANGED <<incentiveVars, backendVars, clientVars, peerVars, now, nodeRegistry, connectedPeers, nodeCapacities,
                 activeRoutes, clientSessions, routeCache, pending, issued, cacheUse>>

(***************************************************************************)
(* Peer events: handlePeerDisconnect, handleBandwidthReport; the clock     *)
(***************************************************************************)
\* the routes of activeRoutes and the sessions whose route includes peerId
RoutesThrough(routes, peerId) ==
  {id \in DOMAIN routes : peerId \in SeqToSet(routes[id].nodes)}
SessionsThroughNone(sessions, peerId) == {}
SessionsThrough(sessions, peerId) ==
  {id \in DOMAIN sessions : peerId \in SeqToSet(sessions[id].route.nodes)}
\* n copies of an event
Times(n, event) == [i \in 1..n |-> event]

\* TrafficRouter.handlePeerDisconnection: the routes through the peer leave
\* activeRoutes, then each session through the peer is closed (closeSession
\* finds its route already gone)
handlePeerDisconnection(peerId) ==
  LET routesToRemove == RoutesThrough(activeRoutes, peerId)
      closed == SessionsThrough(clientSessions, peerId)
  IN /\ activeRoutes' = Without(activeRoutes, routesToRemove)
     /\ clientSessions' = Without(clientSessions, closed)
     /\ emitted' = Times(Cardinality(routesToRemove), "route:removed")
                     \o Times(Cardinality(closed), "session:closed")

\* P2PNetworkManager.handlePeerDisconnect: the peer leaves connectedPeers (its
\* nodeRegistry entry stays) and peer:disconnected reaches the router
handlePeerDisconnect(peerId) ==
  /\ NoFindInFlight
  /\ peerId \in connectedPeers
  /\ connectedPeers' = connectedPeers \ {peerId}
  /\ handlePeerDisconnection(peerId)
  /\ result' = Ok
  /\ routed' = NoRouted
  /\ peerInfo' = Without(peerInfo, {peerId})
  /\ UNCHANGED <<incentiveVars, backendVars, clientVars, sendVars, verified, received, now, nodeRegistry,
                 nodeCapacities, routeCache, pending,
                 issued, cacheUse>>

\* P2PNetworkManager.handleBandwidthReport: the registry entry of the peer takes
\* the reported bandwidth; TrafficRouter.updateNodeBandwidth sets the capacity of
\* the load balancer and invalidates the cached routes through the peer
handleBandwidthReport(peerId, bandwidth) ==
  /\ NoFindInFlight
  /\ peerId \in connectedPeers
  /\ nodeRegistry' = [i \in DOMAIN nodeRegistry |->
                        IF nodeRegistry[i].id = peerId
                        THEN [nodeRegistry[i] EXCEPT !.bandwidth = bandwidth]
                        ELSE nodeRegistry[i]]
  /\ nodeCapacities' = [nodeCapacities EXCEPT ![peerId] = bandwidth.download]
  /\ routeCache' = invalidateRouteCache(routeCache, peerId)
  /\ cacheUse' = UseOrder(cacheUse, invalidateRouteCache(routeCache, peerId), <<>>)
  /\ result' = Ok
  /\ emitted' = <<"bandwidth:report">>
  /\ routed' = NoRouted
  /\ UNCHANGED <<incentiveVars, backendVars, clientVars, sendVars, peerVars, now, connectedPeers, activeRoutes,
                 clientSessions, pending,
                 issued>>

\* nodeRegistry.set: a key that is there keeps its place
RegistrySet(registry, nodeId, entry) ==
  IF \E i \in DOMAIN registry : registry[i].id = nodeId
  THEN [i \in DOMAIN registry |-> IF registry[i].id = nodeId THEN entry ELSE registry[i]]
  ELSE Append(registry, entry)

\* handlePeerConnect: performHandshake signs the payload of the handshake and
\* sends it (sent: sendMessage reached the peer); then the peer is stored in
\* connectedPeers.  No answer of the peer is waited for.
handlePeerConnect(peerId, sent) ==
  /\ NoFindInFlight
  /\ IF SignThrows \/ ~sent
     THEN /\ emitted' = <<"peer:connection-error">>
          /\ UNCHANGED <<connectedPeers, peerInfo>>
     ELSE /\ connectedPeers' = connectedPeers \cup {peerId}
          /\ peerInfo' = With(peerInfo, peerId, PeerEntry(now))
          /\ emitted' = <<"peer:connected">>
  /\ result' = Ok
  /\ routed' = NoRouted
  /\ UNCHANGED <<incentiveVars, backendVars, clientVars, sendVars, verified, received, now, nodeRegistry,
                 nodeCapacities, activeRoutes, clientSessions, routeCache, pending, issued,
                 cacheUse>>

\* handleHandshake: the signature is verified against payload.nodeInfo.publicKey;
\* a valid message sets the registry entry of the peer, an invalid one gives
\* handshake:error
handleHandshake(message, peerId) ==
  /\ NoFindInFlight
  /\ IF verify(message.payload, message.signature, message.payload.nodeInfo.publicKey)
     THEN /\ nodeRegistry' = RegistrySet(nodeRegistry, peerId, message.payload.nodeInfo)
          /\ verified' = verified \cup {peerId}
          /\ emitted' = <<"handshake:completed">>
     ELSE /\ emitted' = <<"handshake:error">>
          /\ UNCHANGED <<nodeRegistry, verified>>
  /\ received' = received \cup {message}
  /\ result' = Ok
  /\ routed' = NoRouted
  /\ UNCHANGED <<incentiveVars, backendVars, clientVars, sendVars, peerInfo, now, connectedPeers, nodeCapacities,
                 activeRoutes, clientSessions, routeCache, pending, issued, cacheUse>>

\* handleNodeDiscovery: every node of the payload that the registry does not
\* hold is stored with isActive; one node:discovered each
RECURSIVE Discovered(_, _)
Discovered(registry, nodes) ==
  IF nodes = <<>> THEN registry
  ELSE Discovered(IF \E i \in DOMAIN registry : registry[i].id = Head(nodes).id
                  THEN registry
                  ELSE Append(registry, Head(nodes)),
                  Tail(nodes))
handleNodeDiscovery(nodes, peerId) ==
  /\ NoFindInFlight
  /\ nodeRegistry' = Discovered(nodeRegistry, nodes)
  /\ emitted' = Times(Len(nodeRegistry') - Len(nodeRegistry), "node:discovered")
  /\ result' = Ok
  /\ routed' = NoRouted
  /\ UNCHANGED <<incentiveVars, backendVars, clientVars, sendVars, peerVars, now, connectedPeers, nodeCapacities,
                 activeRoutes, clientSessions, routeCache, pending, issued, cacheUse>>

\* handleHeartbeat: the connectedPeers entry of the peer, if there is one, takes
\* the time and the bandwidth of the payload
handleHeartbeat(peerId, bandwidth) ==
  /\ NoFindInFlight
  /\ peerInfo' = IF peerId \in connectedPeers
                 THEN [peerInfo EXCEPT ![peerId].lastSeen = now,
                                       ![peerId].bandwidth = bandwidth]
                 ELSE peerInfo
  /\ emitted' = <<"peer:heartbeat">>
  /\ result' = Ok
  /\ routed' = NoRouted
  /\ UNCHANGED <<incentiveVars, backendVars, clientVars, sendVars, verified, received, now, nodeRegistry,
                 connectedPeers, nodeCapacities, activeRoutes, clientSessions, routeCache,
                 pending, issued, cacheUse>>

\* time passes
Tick ==
  /\ NoFindInFlight
  /\ now < MaxTicks * ClockStep
  /\ now' = now + ClockStep
  /\ UNCHANGED <<incentiveVars, backendVars, clientVars, sendVars, peerVars, result, emitted, nodeRegistry,
                 connectedPeers,
                 nodeCapacities, activeRoutes, clientSessions, routeCache, pending, issued,
                 routed, cacheUse>>

\* more time passes than a route lasts
TickOver ==
  /\ NoFindInFlight
  /\ now < MaxTicks * ClockStep
  /\ now' = now + routeTimeout + 1
  /\ UNCHANGED <<incentiveVars, backendVars, clientVars, sendVars, peerVars, result, emitted, nodeRegistry,
                 connectedPeers,
                 nodeCapacities, activeRoutes, clientSessions, routeCache, pending, issued,
                 routed, cacheUse>>

(***************************************************************************)
(* validateTransaction                                                     *)
(***************************************************************************)
\* the message is rebuilt as from:to:amount:type; an exception of verify (no
\* usable public key) is caught and gives false
validateTransaction(transaction) ==
  /\ PublicKeyOf(privateKey) # "none"
  /\ verify(<<transaction.from, transaction.to, transaction.amount, transaction.type>>,
            transaction.signature, PublicKeyOf(privateKey))

(***************************************************************************)
(* Dashboard backend: DatabaseService                                      *)
(***************************************************************************)
\* gen_random_uuid(): the n-th id drawn for a table; no two tables share an id
uuid(table, n) == <<table, n>>
\* the dashboard users, and the clients that sessions are created for
UserIds == {"alice", "bob"}
MaxDbSessions == 2
MaxClaims == 3
NodeIds == {uuid("nodes", 1), uuid("nodes", 2)}
RewardIds == {uuid("rewards", 1), uuid("rewards", 2)}
\* what first() gives when no row matches
NoReward == [nodeId |-> uuid("nodes", 0), found |-> FALSE, claimed |-> FALSE]

\* update(...) on the rows where('id', id): of the nodes, sessions and rewards;
\* the handlers that update a session pass endTime: new Date() (ended)
updateNode(nodes, id, status) ==
  [n \in DOMAIN nodes |-> IF n = id THEN [nodes[n] EXCEPT !.status = status] ELSE nodes[n]]
updateSession(sessions, id, isActive) ==
  [x \in DOMAIN sessions |->
     IF x = id THEN [sessions[x] EXCEPT !.isActive = isActive, !.ended = TRUE]
     ELSE sessions[x]]
updateReward(rewards, id, claimed) ==
  [r \in DOMAIN rewards |->
     IF r = id THEN [rewards[r] EXCEPT !.claimed = claimed] ELSE rewards[r]]
getRewardById(id) ==
  IF id \in DOMAIN dbRewards
  THEN [nodeId |-> dbRewards[id].nodeId, found |-> TRUE, claimed |-> dbRewards[id].claimed]
  ELSE NoReward
\* getNodeById and the check of the handlers: the node exists and is the user's
OwnsNode(userId, nodeId) ==
  nodeId \in DOMAIN dbNodes /\ dbNodes[nodeId].operatorId = userId
\* getNodes({filters: {status: 'online'}, limit: 1}): sorted by createdAt, newest
\* first; the nodes were created in the order of their numbers
OnlineNodes == {n \in DOMAIN dbNodes : dbNodes[n].status = "online"}
NewestOnline == CHOOSE n \in OnlineNodes : \A m \in OnlineNodes : m[2] <= n[2]

(***************************************************************************)
(* Dashboard backend: WebSocketService                                     *)
(***************************************************************************)
\* socket.emit('error', {message}): the handler returns, nothing is thrown
SocketError(message) == [status |-> "error", code |-> "none", cause |-> message]

handleNodeStart(userId, nodeId) ==
  /\ IF ~OwnsNode(userId, nodeId)
     THEN /\ result' = SocketError("Node not found or unauthorized")
          /\ emitted' = <<"error">>
          /\ UNCHANGED dbNodes
     ELSE /\ dbNodes' = updateNode(dbNodes, nodeId, "online")
          /\ result' = Ok
          /\ emitted' = <<"node:status-changed", "node:started">>
  /\ UNCHANGED <<incentiveVars, networkVars, clientVars, dbSessions, dbRewards, requests,
                 claimLog>>

\* the sessions are updated by updateSession(nodeId, ...): where('id', nodeId)
handleNodeStop(userId, nodeId) ==
  /\ IF ~OwnsNode(userId, nodeId)
     THEN /\ result' = SocketError("Node not found or unauthorized")
          /\ emitted' = <<"error">>
          /\ UNCHANGED <<dbNodes, dbSessions>>
     ELSE /\ dbNodes' = updateNode(dbNodes, nodeId, "offline")
          /\ dbSessions' = updateSession(dbSessions, nodeId, FALSE)
          /\ result' = Ok
          /\ emitted' = <<"node:status-changed", "node:stopped">>
  /\ UNCHANGED <<incentiveVars, networkVars, clientVars, dbRewards, requests, claimLog>>

\* the session is on the newest online node, its route that node alone
handleSessionCreate(clientId) ==
  /\ Cardinality(DOMAIN dbSessions) < MaxDbSessions
  /\ IF OnlineNodes = {}
     THEN /\ result' = SocketError("No available nodes")
          /\ emitted' = <<"error">>
          /\ UNCHANGED dbSessions
     ELSE /\ dbSessions' =
               With(dbSessions, uuid("sessions", Cardinality(DOMAIN dbSessions) + 1),
                    [nodeId |-> NewestOnline, isActive |-> TRUE, route |-> <<NewestOnline>>,
                     clientId |-> clientId, ended |-> FALSE])
          /\ result' = Ok
          /\ emitted' = <<"session:created", "session:created">>
  /\ UNCHANGED <<incentiveVars, networkVars, clientVars, dbNodes, dbRewards, requests,
                 claimLog>>

handleSessionClose(sessionId) ==
  /\ IF sessionId \notin DOMAIN dbSessions
     THEN /\ result' = SocketError("Session not found")
          /\ emitted' = <<"error">>
          /\ UNCHANGED dbSessions
     ELSE /\ dbSessions' = updateSession(dbSessions, sessionId, FALSE)
          /\ result' = Ok
          /\ emitted' = <<"session:closed", "session:closed">>
  /\ UNCHANGED <<incentiveVars, networkVars, clientVars, dbNodes, dbRewards, requests,
                 claimLog>>

\* handleRewardClaim runs to its first await: getRewardById is on its way to the
\* database. Every await of the handler waits for the database, so the handlers
\* of other requests run in between.
handleRewardClaim(userId, rewardId) ==
  /\ Len(requests) < MaxClaims
  /\ requests' = Append(requests, [pc |-> "getRewardById", reward |-> NoReward,
                                   userId |-> userId, rewardId |-> rewardId])
  /\ result' = Pending
  /\ emitted' = <<>>
  /\ UNCHANGED <<incentiveVars, networkVars, clientVars, dbNodes, dbSessions, dbRewards,
                 claimLog>>
\* getRewardById answers with the row as it is now; getNodeById is sent
handleRewardClaimReward(i) ==
  /\ requests[i].pc = "getRewardById"
  /\ LET reward == getRewardById(requests[i].rewardId) IN
       IF ~reward.found
       THEN /\ requests' = [requests EXCEPT ![i].pc = "done"]
            /\ result' = SocketError("Reward not found")
            /\ emitted' = <<"error">>
       ELSE /\ requests' = [requests EXCEPT ![i].pc = "getNodeById", ![i].reward = reward]
            /\ result' = Pending
            /\ emitted' = <<>>
  /\ UNCHANGED <<incentiveVars, networkVars, clientVars, dbNodes, dbSessions, dbRewards,
                 claimLog>>
\* getNodeById answers; reward.claimed is the flag of the row read before
handleRewardClaimNode(i) ==
  /\ requests[i].pc = "getNodeById"
  /\ IF ~OwnsNode(requests[i].userId, requests[i].reward.nodeId)
     THEN /\ requests' = [requests EXCEPT ![i].pc = "done"]
          /\ result' = SocketError("Unauthorized to claim this reward")
          /\ emitted' = <<"error">>
     ELSE IF requests[i].reward.claimed
     THEN /\ requests' = [requests EXCEPT ![i].pc = "done"]
          /\ result' = SocketError("Reward already claimed")
          /\ emitted' = <<"error">>
     ELSE /\ requests' = [requests EXCEPT ![i].pc = "updateReward"]
          /\ result' = Pending
          /\ emitted' = <<>>
  /\ UNCHANGED <<incentiveVars, networkVars, clientVars, dbNodes, dbSessions, dbRewards,
                 claimLog>>
\* updateReward has written the row; the claim is broadcast and acknowledged
handleRewardClaimUpdated(i) ==
  /\ requests[i].pc = "updateReward"
  /\ dbRewards' = updateReward(dbRewards, requests[i].rewardId, TRUE)
  /\ requests' = [requests EXCEPT ![i].pc = "done"]
  /\ claimLog' = Append(claimLog, [rewardId |-> requests[i].rewardId, request |-> i])
  /\ result' = Ok
  /\ emitted' = <<"reward:claimed", "reward:claimed">>
  /\ UNCHANGED <<incentiveVars, networkVars, clientVars, dbNodes, dbSessions>>

(***************************************************************************)
(* NetworkNeuronClient                                                     *)
(***************************************************************************)
MaxSockets == 3
MaxTunnels == 2
MaxRetries == 2
\* a socket is "connecting", "open", "closing" (close() called on it when open),
\* "aborting" (close() called before it had opened) or "closed"; its listeners
\* stay on it, and write the fields of the client, whichever socket is this.ws.

\* the 'connected' listener of the constructor
onConnected(c) == [c EXCEPT !.isConnected = TRUE, !.retryCount = 0]
\* the 'disconnected' listener of the constructor: the fields, and whether it
\* sets the timer that calls connect()
onDisconnected(c) ==
  [c EXCEPT !.isConnected = FALSE, !.hasRoute = FALSE, !.tunnelActive = FALSE]
Reconnects(c) == c.autoReconnect /\ c.retryCount < c.maxRetries
\* emit('error'): the once('error') listeners of the startTunnel calls clear the
\* timeout and reject; the listener of the constructor only logs
onError(calls) ==
  [i \in DOMAIN calls |->
     IF calls[i].errorListener
     THEN [calls[i] EXCEPT !.errorListener = FALSE, !.timeout = FALSE,
                           !.promise = IF @ = "pending" THEN "rejected" ELSE @]
     ELSE calls[i]]
\* emit('route:established'): the once listeners of the startTunnel calls clear
\* the timeout, set tunnelActive, emit tunnel:started and resolve
onRouteEstablished(calls) ==
  [i \in DOMAIN calls |->
     IF calls[i].routeListener
     THEN [calls[i] EXCEPT !.routeListener = FALSE, !.timeout = FALSE,
                           !.promise = IF @ = "pending" THEN "resolved" ELSE @]
     ELSE calls[i]]
RouteListeners(calls) == {i \in DOMAIN calls : calls[i].routeListener}
\* sendMessage throws NOT_CONNECTED unless this.ws is an open socket
CanSend == client.ws # 0 /\ sockets[client.ws] = "open"

\* connect(): nothing when connected or connecting; else a new socket
connect ==
  /\ IF client.isConnected \/ client.isConnecting
     THEN UNCHANGED <<client, sockets>>
     ELSE /\ Len(sockets) < MaxSockets
          /\ sockets' = Append(sockets, "connecting")
          /\ client' = [client EXCEPT !.isConnecting = TRUE, !.retryCount = @ + 1,
                                      !.ws = Len(sockets) + 1]
  /\ result' = Ok
  /\ emitted' = <<>>
  /\ UNCHANGED <<incentiveVars, networkVars, backendVars, tunnels>>
userConnect == connect /\ UNCHANGED timers
\* the timer of the 'disconnected' listener fires
reconnectTimer ==
  /\ timers > 0
  /\ timers' = timers - 1
  /\ connect

\* ws 'open': isConnecting = false, emit('connected'), sendHandshake()
wsOpen(k) ==
  /\ sockets[k] = "connecting"
  /\ sockets' = [sockets EXCEPT ![k] = "open"]
  /\ client' = onConnected([client EXCEPT !.isConnecting = FALSE])
  /\ result' = IF client.ws = k THEN Ok ELSE Thrown("NOT_CONNECTED", "none")
  /\ emitted' = <<"connected">>
  /\ UNCHANGED <<incentiveVars, networkVars, backendVars, timers, tunnels>>
\* ws 'close': isConnecting = false, emit('disconnected'). A socket that fails
\* to connect, or was closed before it had opened, emits 'error' just before.
wsClose(k) ==
  /\ sockets[k] \in {"connecting", "open", "closing", "aborting"}
  /\ sockets' = [sockets EXCEPT ![k] = "closed"]
  /\ client' = onDisconnected([client EXCEPT !.isConnecting = FALSE])
  /\ timers' = timers + (IF Reconnects(client) THEN 1 ELSE 0)
  /\ tunnels' = IF sockets[k] \in {"connecting", "aborting"} THEN onError(tunnels)
                ELSE tunnels
  /\ result' = Ok
  /\ emitted' = (IF sockets[k] \in {"connecting", "aborting"} THEN <<"error">> ELSE <<>>)
                  \o <<"disconnected">>
  /\ UNCHANGED <<incentiveVars, networkVars, backendVars>>

\* disconnect(): this.ws.close(), this.ws = null, the flags cleared; the close
\* event of the socket comes later
disconnect ==
  /\ sockets' = IF client.ws = 0 THEN sockets
                ELSE [sockets EXCEPT ![client.ws] =
                        IF @ = "open" THEN "closing"
                        ELSE IF @ = "connecting" THEN "aborting" ELSE @]
  /\ client' = [client EXCEPT !.ws = 0, !.isConnected = FALSE, !.isConnecting = FALSE,
                              !.tunnelActive = FALSE, !.hasRoute = FALSE]
  /\ result' = Ok
  /\ emitted' = <<>>
  /\ UNCHANGED <<incentiveVars, networkVars, backendVars, timers, tunnels>>

\* startTunnel: requestRoute, then the promise with its timeout and its two
\* once listeners
startTunnel ==
  /\ Len(tunnels) < MaxTunnels
  /\ IF ~CanSend
     THEN /\ result' = Thrown("TUNNEL_START_ERROR", "NOT_CONNECTED")
          /\ emitted' = <<>>
          /\ UNCHANGED tunnels
     ELSE /\ tunnels' = Append(tunnels, [errorListener |-> TRUE, timeout |-> TRUE,
                                         promise |-> "pending", routeListener |-> TRUE])
          /\ result' = Pending
          /\ emitted' = <<"route:requested">>
  /\ UNCHANGED <<incentiveVars, networkVars, backendVars, client, sockets, timers>>
\* the timeout of a startTunnel call fires: reject(ROUTE_TIMEOUT)
startTunnelTimeout(i) ==
  /\ tunnels[i].timeout
  /\ tunnels' = [tunnels EXCEPT ![i].timeout = FALSE,
                                ![i].promise = IF @ = "pending" THEN "rejected" ELSE @]
  /\ result' = IF tunnels[i].promise = "pending" THEN Thrown("ROUTE_TIMEOUT", "none") ELSE Ok
  /\ emitted' = <<>>
  /\ UNCHANGED <<incentiveVars, networkVars, backendVars, client, sockets, timers>>
\* a route_response on an open socket: handleRouteResponse
handleRouteResponse(k) ==
  /\ sockets[k] = "open"
  /\ client' = [client EXCEPT !.hasRoute = TRUE,
                              !.tunnelActive = IF RouteListeners(tunnels) # {} THEN TRUE ELSE @]
  /\ tunnels' = onRouteEstablished(tunnels)
  /\ result' = Ok
  /\ emitted' = <<"route:established">>
                  \o [j \in 1..Cardinality(RouteListeners(tunnels)) |-> "tunnel:started"]
  /\ UNCHANGED <<incentiveVars, networkVars, backendVars, sockets, timers>>
\* an error message on an open socket: handleError
handleError(k) ==
  /\ sockets[k] = "open"
  /\ tunnels' = onError(tunnels)
  /\ result' = Ok
  /\ emitted' = <<"error">>
  /\ UNCHANGED <<incentiveVars, networkVars, backendVars, client, sockets, timers>>
stopTunnel ==
  /\ IF client.tunnelActive
     THEN /\ client' = [client EXCEPT !.tunnelActive = FALSE, !.hasRoute = FALSE]
          /\ emitted' = <<"tunnel:stopped">>
     ELSE /\ emitted' = <<>>
          /\ UNCHANGED client
  /\ result' = Ok
  /\ UNCHANGED <<incentiveVars, networkVars, backendVars, sockets, timers, tunnels>>

(***************************************************************************)
(* Specification                                                           *)
(***************************************************************************)
\* the calls on the IncentiveSystem leave the router and the network alone
Stake == \E n \in Nodes, a \in Amounts : stakeTokens(n, a) /\ UNCHANGED routerVars
Unstake == \E n \in Nodes, a \in Amounts : unstakeTokens(n, a) /\ UNCHANGED routerVars
UpdatePerformance ==
  \E n \in Nodes, m \in PerfInputs : updateNodePerformance(n, m) /\ UNCHANGED routerVars
RecordBandwidth ==
  \E n \in Nodes, b \in ByteInputs : recordBandwidthProvided(n, b) /\ UNCHANGED routerVars
RecordSession == \E n \in Nodes : recordSessionServed(n) /\ UNCHANGED routerVars
Distribute == \E c \in DOMAIN runs : distributeRewards(c) /\ UNCHANGED routerVars
DistributeResume == \E c \in DOMAIN runs : distributeRewardsResume(c) /\ UNCHANGED routerVars
DistributeInFlight ==
  \E c \in DOMAIN runs : distributeRewardsInFlight(c) /\ UNCHANGED routerVars

\* a repeat of the destination of the oldest cached route is among the inputs
FindDests == Dests \cup {routeCache[i].key[1] : i \in DOMAIN routeCache \cap {1}}
FindRoute == \E d \in FindDests, q \in Requirements : findRoute(d, q)
CreateSession == \E d \in Dests, q \in Requirements : createSession(d, q)
FindRouteResume == findRouteResume
CloseSession == \E id \in DOMAIN clientSessions \cup {0} : closeSession(id)
PeerDisconnect == \E p \in Peers : handlePeerDisconnect(p)
BandwidthReport == \E p \in Peers, b \in BandwidthReports : handleBandwidthReport(p, b)
PeerConnect == \E p \in Peers, sent \in BOOLEAN : handlePeerConnect(p, sent)
Handshake ==
  \E p \in Peers, id \in HandshakeIds, version \in HandshakeVersions :
    handleHandshake(HandshakeMessage(p, id, version), p)
\* a peer tells of the other peers
NodeDiscovery ==
  \E p \in Peers :
    handleNodeDiscovery(SelectSeq([i \in DOMAIN PeerOrder |-> NodeInfo(PeerOrder[i])],
                                  LAMBDA node : node.id # p), p)
Heartbeat == \E p \in Peers, b \in Heartbeats : handleHeartbeat(p, b)
FindRouteOptimized == \E d \in Dests, q \in AlgorithmRequirements : findRoute(d, q)
FindRouteFiltered == \E d \in Dests, q \in FilterRequirements : findRoute(d, q)
\* the packets a client sends: on a route it was given by findRoute, which
\* activeRoutes or the cache still holds
SendRoutes ==
  {activeRoutes[id] : id \in DOMAIN activeRoutes}
    \cup {routeCache[i].route : i \in DOMAIN routeCache}
Packets == [route : SendRoutes, encrypted : BOOLEAN, payloadLength : PayloadLengths]
SendPacket == \E packet \in Packets, encrypts \in BOOLEAN : sendPacket(packet, encrypts)
SendPacketResume == \E delivered \in BOOLEAN : sendPacketResume(delivered)

Next ==
  \/ Stake
  \/ Unstake
  \/ UpdatePerformance
  \/ RecordBandwidth
  \/ RecordSession
  \/ Distribute
  \/ DistributeResume

Spec == Init /\ [][Next]_vars

\* the ledger constructed with a usable config.privateKey
InitSigned == Init /\ privateKey = "pem"
SpecSigned == InitSigned /\ [][Next]_vars

\* The ledger with a usable key after the first bootstrap node has brought its
\* stake to st tokens (stakeTokens of minStake, then one unstakeTokens of the
\* difference) and its counters and performance have been reported.
StakedLog(n, st) ==
  IF st = 0 THEN <<>>
  ELSE IF st = MinStakeTokens THEN <<StakeTx(n, MinStake)>>
  ELSE <<StakeTx(n, MinStake), UnstakeTx(n, MinStake - st * Scale)>>
InitRewards ==
  /\ privateKey = "pem"
  /\ \E st \in RewardStakes :
       LET n == BootstrapNodes[1]
       IN /\ stakes = [m \in Nodes |-> IF m = n THEN st * Scale ELSE 0]
          /\ balances = [initializeTokenSystem EXCEPT ![n] = @ - st * Scale]
          /\ stakeOrder = IF st = 0 THEN <<>> ELSE <<n>>
          /\ transactions = StakedLog(n, st)
          /\ recorded = Len(StakedLog(n, st))
  /\ bandwidthProvided \in [Nodes -> RewardBytes]
  /\ sessionsServed \in [Nodes -> RewardSessions]
  /\ nodePerformance \in [Nodes -> RewardPerfInputs]
  /\ \A m \in Nodes \ {BootstrapNodes[1]} :
       /\ bandwidthProvided[m] = 0
       /\ sessionsServed[m] = 0
       /\ nodePerformance[m] = CHOOSE q \in RewardPerfInputs : q.uptime = 0 /\ q.averageLatency = 0
  /\ InitBackend
  /\ InitClient
  /\ InitCalls(Callers)
  /\ InitRouter
NextRewards == Distribute \/ DistributeResume
SpecRewards == InitRewards /\ [][NextRewards]_vars

\* The ledger with a usable key whose log is one entry short of the retention:
\* the first bootstrap node has staked minStake, and unstaked and staked it again
\* until the log held TxRetention - 1 transactions.
FullLog(n) ==
  [i \in 1..(TxRetention - 1) |->
     IF i % 2 = 1 THEN StakeTx(n, MinStake) ELSE UnstakeTx(n, MinStake)]
InitRetention ==
  /\ privateKey = "pem"
  /\ LET n == BootstrapNodes[1]
     IN /\ stakes = [m \in Nodes |-> IF m = n THEN MinStake ELSE 0]
        /\ balances = [initializeTokenSystem EXCEPT ![n] = @ - MinStake]
        /\ stakeOrder = <<n>>
        /\ transactions = FullLog(n)
  /\ recorded = 0
  /\ InitAccounting
  /\ InitBackend
  /\ InitClient
  /\ InitCalls(Callers)
  /\ InitRouter
NextRetention == Stake \/ Unstake
SpecRetention == InitRetention /\ [][NextRetention]_vars

\* the router and the network manager of a node whose ledger is idle
InitRouting ==
  /\ privateKey = "pem"
  /\ InitLedger
  /\ InitAccounting
  /\ InitBackend
  /\ InitClient
  /\ InitCalls(Callers)
  /\ InitRouter
NextRouting ==
  \/ FindRoute
  \/ CreateSession
  \/ FindRouteResume
  \/ CloseSession
  \/ PeerDisconnect
  \/ BandwidthReport
  \/ Tick
SpecRouting == InitRouting /\ [][NextRouting]_vars
\* routes and sessions are created and the peers report their bandwidth
NextReports ==
  \/ FindRoute
  \/ CreateSession
  \/ FindRouteResume
  \/ BandwidthReport
SpecReports == InitRouting /\ [][NextReports]_vars
\* sessions are created and closed while their routes expire
NextSessions ==
  \/ FindRoute
  \/ CreateSession
  \/ FindRouteResume
  \/ CloseSession
  \/ TickOver
SpecSessions == InitRouting /\ [][NextSessions]_vars

\* the router with clients that send packets on the routes they were given
NextSend ==
  \/ FindRoute
  \/ FindRouteResume
  \/ SendPacket
  \/ SendPacketResume
  \/ PeerDisconnect
  \/ Tick
SpecSend == InitRouting /\ [][NextSend]_vars
\* The router after findRoute has been called for destination 1 with each of
\* the requirements in turn, each call missing the cache and creating a route,
\* and closeSession has then been called with an unknown id.  Packets are sent
\* on these routes while time passes and peers disconnect.
RequirementOrder == <<[algorithm |-> NoAlgorithm], [algorithm |-> "lowestLatency"]>>
FoundKey(i) == generateCacheKey(1, RequirementOrder[i])
FoundRoute(i) ==
  LET path == findOptimalPath(1, [j \in DOMAIN PeerOrder |-> NodeInfo(PeerOrder[j])],
                              RequirementOrder[i])
  IN [id |-> i, nodes |-> path.nodes, latency |-> path.latency,
      bandwidth |-> path.bandwidth, cost |-> path.cost, encrypted |-> TRUE,
      expiresAt |-> routeTimeout]
InitForward ==
  /\ privateKey = "pem"
  /\ InitLedger
  /\ InitAccounting
  /\ InitBackend
  /\ InitClient
  /\ InitCalls(Callers)
  /\ InitNetwork
  /\ activeRoutes = [i \in DOMAIN RequirementOrder |-> FoundRoute(i)]
  /\ routeCache = [i \in DOMAIN RequirementOrder |-> [key |-> FoundKey(i), route |-> FoundRoute(i)]]
  /\ cacheUse = [i \in DOMAIN RequirementOrder |-> FoundKey(i)]
  /\ clientSessions = <<>>
  /\ pending = <<>>
  /\ issued = Len(RequirementOrder)
  /\ routed = NoRouted
NextForward ==
  \/ SendPacket
  \/ SendPacketResume
  \/ PeerDisconnect
  \/ Tick
SpecForward == InitForward /\ [][NextForward]_vars

\* the dashboard: two nodes, one of each operator, online; no session yet
NodeStart == \E u \in UserIds, n \in NodeIds : handleNodeStart(u, n)
NodeStop == \E u \in UserIds, n \in NodeIds : handleNodeStop(u, n)
SessionCreate == handleSessionCreate("c1")
SessionClose ==
  \E x \in DOMAIN dbSessions \cup {uuid("sessions", 0)} : handleSessionClose(x)
InitDatabase(rewards) ==
  /\ dbNodes = [n \in NodeIds |->
                  [status |-> "online", operatorId |-> IF n[2] = 1 THEN "alice" ELSE "bob"]]
  /\ dbSessions = <<>>
  /\ dbRewards = [r \in rewards |-> [nodeId |-> uuid("nodes", r[2]), claimed |-> FALSE]]
  /\ requests = <<>>
  /\ claimLog = <<>>
InitDashboard ==
  /\ privateKey = "pem"
  /\ InitLedger
  /\ InitAccounting
  /\ InitDatabase({})
  /\ InitClient
  /\ InitCalls(Callers)
  /\ InitRouter
NextDashboard ==
  \/ NodeStart
  \/ NodeStop
  \/ SessionCreate
  \/ SessionClose
SpecDashboard == InitDashboard /\ [][NextDashboard]_vars

\* the claims of rewards: a reward of each node, and requests for them and for
\* a reward that does not exist
RewardClaim ==
  \E u \in UserIds, r \in RewardIds \cup {uuid("rewards", 0)} : handleRewardClaim(u, r)
RewardClaimReward == \E i \in DOMAIN requests : handleRewardClaimReward(i)
RewardClaimNode == \E i \in DOMAIN requests : handleRewardClaimNode(i)
RewardClaimUpdated == \E i \in DOMAIN requests : handleRewardClaimUpdated(i)
InitClaims ==
  /\ privateKey = "pem"
  /\ InitLedger
  /\ InitAccounting
  /\ InitDatabase(RewardIds)
  /\ InitClient
  /\ InitCalls(Callers)
  /\ InitRouter
NextClaims ==
  \/ RewardClaim
  \/ RewardClaimReward
  \/ RewardClaimNode
  \/ RewardClaimUpdated
SpecClaims == InitClaims /\ [][NextClaims]_vars

\* the client and its connection: the user connects and disconnects, the
\* sockets open, fail and close, the reconnect timers fire
UserConnect == userConnect
ReconnectTimer == reconnectTimer
WsOpen == \E k \in DOMAIN sockets : wsOpen(k)
WsClose == \E k \in DOMAIN sockets : wsClose(k)
Disconnect == disconnect
InitRest ==
  /\ privateKey = "pem"
  /\ InitLedger
  /\ InitAccounting
  /\ InitBackend
  /\ InitCalls(Callers)
  /\ InitRouter
InitConnection ==
  /\ InitRest
  /\ \E a \in BOOLEAN, m \in 1..MaxRetries : client = NewClient(a, m)
  /\ sockets = <<>>
  /\ timers = 0
  /\ tunnels = <<>>
NextConnection ==
  \/ UserConnect
  \/ ReconnectTimer
  \/ WsOpen
  \/ WsClose
  \/ Disconnect
SpecConnection == InitConnection /\ [][NextConnection]_vars

\* the tunnel of a client that is connected (connect(), the socket open)
StartTunnel == startTunnel
StartTunnelTimeout == \E i \in DOMAIN tunnels : startTunnelTimeout(i)
RouteResponse == \E k \in DOMAIN sockets : handleRouteResponse(k)
ErrorMessage == \E k \in DOMAIN sockets : handleError(k)
StopTunnel == stopTunnel
InitTunnel ==
  /\ InitRest
  /\ client = [onConnected(NewClient(FALSE, DefaultMaxRetries)) EXCEPT !.ws = 1]
  /\ sockets = <<"open">>
  /\ timers = 0
  /\ tunnels = <<>>
NextTunnel ==
  \/ StartTunnel
  \/ StartTunnelTimeout
  \/ RouteResponse
  \/ ErrorMessage
  \/ StopTunnel
  \/ WsClose
  \/ Disconnect
SpecTunnel == InitTunnel /\ [][NextTunnel]_vars

\* the router with clients that ask for routes under hard filters
NextFilters ==
  \/ FindRouteFiltered
  \/ FindRouteResume
  \/ PeerDisconnect
  \/ BandwidthReport
SpecFilters == InitRouting /\ [][NextFilters]_vars

\* the network manager from its start: no peer connected, the registry empty
InitPeering ==
  /\ privateKey \in Keys
  /\ InitLedger
  /\ InitAccounting
  /\ InitBackend
  /\ InitClient
  /\ InitCalls(Callers)
  /\ InitPeers(<<>>, {})
  /\ InitTables
NextPeering ==
  \/ PeerConnect
  \/ Handshake
  \/ NodeDiscovery
  \/ Heartbeat
  \/ PeerDisconnect
  \/ BandwidthReport
  \/ Tick
SpecPeering == InitPeering /\ [][NextPeering]_vars

\* the optimizer on every list of candidates: the registry holds the peers in
\* one of the orders, each with one of the profiles, and findRoute is called
\* with each algorithm
Candidate(p, profile) ==
  [id |-> p, isActive |-> TRUE, bandwidth |-> profile,
   reputation |-> CandidateReputation, region |-> PeerRegion(p)]
InitOptimizer ==
  /\ privateKey = "pem"
  /\ InitLedger
  /\ InitAccounting
  /\ InitBackend
  /\ InitClient
  /\ InitCalls(Callers)
  /\ \E order \in CandidateOrders, profiles \in [Peers -> CandidateProfiles] :
       InitPeers([i \in DOMAIN order |-> Candidate(order[i], profiles[order[i]])], Peers)
  /\ InitTables
NextOptimizer ==
  \/ FindRouteOptimized
  \/ FindRouteResume
SpecOptimizer == InitOptimizer /\ [][NextOptimizer]_vars

\* The router after maxCacheSize - 1 findRoute calls made at time 0, each to a
\* destination of its own (2, 3, ...) with no algorithm required: every call
\* missed the cache, created a route through the best peer, cached and stored it.
\* That peer has then disconnected, which emptied activeRoutes and left the cache
\* as it was, and connected again.
FilledRoute(i) ==
  LET path == findBalancedPath([j \in DOMAIN PeerOrder |-> NodeInfo(PeerOrder[j])])
  IN [id |-> 0 - i, nodes |-> path.nodes, latency |-> path.latency,
      bandwidth |-> path.bandwidth, cost |-> path.cost, encrypted |-> TRUE,
      expiresAt |-> routeTimeout]
FilledKey(i) == generateCacheKey(i + 1, [algorithm |-> NoAlgorithm])
InitCache ==
  /\ privateKey = "pem"
  /\ InitLedger
  /\ InitAccounting
  /\ InitBackend
  /\ InitClient
  /\ InitCalls(Callers)
  /\ InitNetwork
  /\ routeCache = [i \in 1..(maxCacheSize - 1) |-> [key |-> FilledKey(i), route |-> FilledRoute(i)]]
  /\ cacheUse = [i \in 1..(maxCacheSize - 1) |-> FilledKey(i)]
  /\ activeRoutes = <<>>
  /\ clientSessions = <<>>
  /\ pending = <<>>
  /\ issued = 0
  /\ routed = NoRouted
NextCache ==
  \/ FindRoute
  \/ FindRouteResume
  \/ BandwidthReport
SpecCache == InitCache /\ [][NextCache]_vars

\* the ledger with a usable key and two callers of distributeRewards, the
\* RewardScheduler timer and an operator, whose calls may overlap
InitConcurrent ==
  /\ privateKey = "pem"
  /\ InitLedger
  /\ InitAccounting
  /\ InitBackend
  /\ InitClient
  /\ InitCalls(Callers \cup Operators)
  /\ InitRouter
NextConcurrent == Next \/ DistributeInFlight
SpecConcurrent == InitConcurrent /\ [][NextConcurrent]_vars

(***************************************************************************)
(* Properties of the ledger                                                *)
(***************************************************************************)
\* the reward a step of run c hands to distributeReward, if any
RunRewards(c) == IF runs[c].pc = "paying" THEN runs[c].rewards ELSE CollectRewards(stakeOrder)
RunFrom(c) == IF runs[c].pc = "paying" THEN runs[c].next ELSE 1
RunStep(c) == distributeRewardsResume(c) \/ (distributeRewards(c) /\ getBalance(RewardPoolId) > 0)
HandsReward(c) == RunStep(c) /\ NextPayable(RunRewards(c), RunFrom(c)) # 0
RewardInHand(c) == RunRewards(c)[NextPayable(RunRewards(c), RunFrom(c))]
LedgerUnchanged == UNCHANGED <<balances, stakes, transactions>>

\* C1: after any sequence of stakeTokens, unstakeTokens, distributeRewards and
\* accounting calls, with any amounts (zero and negative ones too), every stake
\* and every balance, the reward pool's included, is >= 0.
C1_NonNegative ==
  /\ \A a \in Accounts : balances[a] >= 0
  /\ \A n \in Nodes : stakes[n] >= 0

\* C2: the total of all balances plus all stakes stays what it was after ledger
\* initialisation: every applied stake, unstake and reward debits one account by
\* exactly the amount it credits another.
InitialTotal == SumOver(initializeTokenSystem, Accounts)
C2_SupplyConserved ==
  SumOver(balances, Accounts) + SumOver(stakes, Nodes) = InitialTotal
\* a stake, a reward and an unstake have all been applied
C2_Witness ==
  /\ \E i \in DOMAIN transactions : transactions[i].type = "stake"
  /\ \E i \in DOMAIN transactions : transactions[i].type = "reward"
  /\ \E i \in DOMAIN transactions : transactions[i].type = "unstake"
  /\ \E n \in Nodes : stakes[n] > 0

\* C3: a stake(n, x) that succeeds, immediately followed by unstake(n, x), returns
\* every balance and every stake to its value before the two calls, and the log
\* has exactly two new entries: the stake, then the unstake.
C3_StakeUnstakeRoundTrip ==
  roundTrip.phase = "unstaked" =>
    /\ result = Ok
    /\ balances = roundTrip.balances
    /\ stakes = roundTrip.stakes
    /\ transactions = roundTrip.transactions
         \o <<StakeTx(roundTrip.nodeId, roundTrip.amount),
              UnstakeTx(roundTrip.nodeId, roundTrip.amount)>>
\* the pair has run while another node held a stake and the log was not empty
C3_Witness ==
  /\ roundTrip.phase = "unstaked"
  /\ \E m \in Nodes : m # roundTrip.nodeId /\ roundTrip.stakes[m] > 0
  /\ Len(roundTrip.transactions) > 0

\* C4: a stake call with amount < min_stake fails with MinStakeNotMet, whatever
\* the caller's balance; one with amount = min_stake and balance >= amount
\* succeeds.
C4_MinStakeBoundary ==
  [][\A n \in Nodes, a \in Amounts :
       stakeTokens(n, a) =>
         /\ a < MinStake =>
              result'.status = "error" /\ result'.cause = "MIN_STAKE_NOT_MET"
         /\ (a = MinStake /\ balances[n] >= a) => result'.status = "ok"]_vars

\* C5: stake(node, amount) is all or nothing: it fails (InsufficientBalance,
\* MinStakeNotMet or a signing failure) and balances, stakes and the log are
\* unchanged, or it succeeds, the balance is down by amount, the stake up by
\* amount and one signed stake transaction is appended.
C5_StakeAllOrNothing ==
  [][\A n \in Nodes, a \in Amounts :
       stakeTokens(n, a) =>
         \/ /\ result'.status = "error"
            /\ result'.cause \in {"INSUFFICIENT_BALANCE", "MIN_STAKE_NOT_MET",
                                  "AUTHENTICATION_ERROR"}
            /\ LedgerUnchanged
         \/ /\ result'.status = "ok"
            /\ balances' = [balances EXCEPT ![n] = @ - a]
            /\ stakes' = [stakes EXCEPT ![n] = @ + a]
            /\ Len(transactions') = Len(transactions) + 1
            /\ transactions'[Len(transactions')].type = "stake"
            /\ transactions'[Len(transactions')].signature.key = "pem"]_vars

\* C6: unstake(node, amount) with amount > stake[node] fails with
\* InsufficientStake and changes nothing; otherwise the stake is down by amount,
\* the balance up by amount and one unstake transaction is appended.
C6_UnstakeInverse ==
  [][\A n \in Nodes, a \in Amounts :
       unstakeTokens(n, a) =>
         IF a > stakes[n]
         THEN /\ result'.status = "error"
              /\ result'.cause = "INSUFFICIENT_STAKE"
              /\ LedgerUnchanged
         ELSE /\ stakes' = [stakes EXCEPT ![n] = @ - a]
              /\ balances' = [balances EXCEPT ![n] = @ + a]
              /\ Len(transactions') = Len(transactions) + 1
              /\ transactions'[Len(transactions')].type = "unstake"]_vars

\* C7: crediting a reward of amount a when the reward pool holds less than a
\* fails with InsufficientRewardPool, surfaced to the caller, and changes
\* nothing; when the pool holds at least a, the pool is down by a, the node's
\* balance up by a and exactly one reward transaction is appended.
C7_CreditReward ==
  [][\A c \in Callers :
       HandsReward(c) =>
         LET r == RewardInHand(c)
         IN IF balances[RewardPoolId] < r.amount
            THEN /\ result'.status = "error"
                 /\ result'.cause = "INSUFFICIENT_REWARD_POOL"
                 /\ LedgerUnchanged
            ELSE /\ balances'[RewardPoolId] = balances[RewardPoolId] - r.amount
                 /\ balances'[r.nodeId] = balances[r.nodeId] + r.amount
                 /\ Len(transactions') = Len(transactions) + 1
                 /\ transactions'[Len(transactions')].type = "reward"]_vars

\* C8: a distribution run started right after another run returned, no
\* accounting call in between, pays nothing: none of its steps changes a balance
\* or appends a reward transaction.
C8_SecondRunPaysNothing ==
  [][\A c \in Callers :
       (RunStep(c) /\ (IF runs[c].pc = "paying" THEN runs[c].repeat
                       ELSE emitted = <<"rewards:distributed">>))
         => UNCHANGED <<balances, transactions>>]_vars

\* C9: whenever a distribution credits a reward to node n, the same step reduces
\* n's bytes and sessions counters by exactly the snapshotted amounts the reward
\* was computed from.
C9_ConsumeOnCredit ==
  [][\A c \in Callers :
       (HandsReward(c) /\ balances'[RewardPoolId] # balances[RewardPoolId]) =>
         LET r == RewardInHand(c)
         IN /\ bandwidthProvided'[r.nodeId] = bandwidthProvided[r.nodeId] - r.bandwidthProvided
            /\ sessionsServed'[r.nodeId] = sessionsServed[r.nodeId] - r.sessionsServed]_vars

\* C10: in a distribution run, once a reward cannot be paid because the pool is
\* smaller than its amount, no later reward of the run is paid, a
\* RewardPoolExhausted event is emitted, and what the run paid before stays paid.
C10_PoolExhausted ==
  [][\A c \in Callers :
       RunStep(c) =>
         /\ runs[c].pc = "paying" /\ runs[c].skipped # {} => UNCHANGED balances
         /\ (HandsReward(c) /\ balances[RewardPoolId] < RewardInHand(c).amount) =>
              \E i \in DOMAIN emitted' : emitted'[i] = "RewardPoolExhausted"
         /\ \A n \in Nodes : balances'[n] >= balances[n]
         /\ Len(transactions') >= Len(transactions)]_vars
\* the rewards run c has paid so far, each with the counters it was computed from
PaidBy(c) ==
  {<<runs[c].rewards[i].nodeId, runs[c].rewards[i].bandwidthProvided,
     runs[c].rewards[i].sessionsServed>> :
     i \in {j \in 1..(runs[c].next - 1) :
              /\ runs[c].rewards[j].amount > 0
              /\ runs[c].rewards[j].nodeId \notin runs[c].skipped}}

\* C11: only one distribution is in flight at a time: when distributeRewards is
\* invoked while an earlier invocation has not finished, the two runs are never
\* both between their first and last payout, and no node is paid by both runs
\* for the same accounting counters.
C11_OneDistributionInFlight ==
  /\ Cardinality({c \in DOMAIN runs : runs[c].pc = "paying"}) <= 1
  /\ \A c1, c2 \in DOMAIN runs : c1 # c2 => PaidBy(c1) \cap PaidBy(c2) = {}
\* the raw reward of the claim, in ledger units (1 / Scale token): stake in tokens,
\* multiplier min(1 + (stake / min_stake) * 0.5, 2) over 2 * min_stake
ClaimRaw(bytes, sessions, stake, uptime, avgLatency) ==
  bytes * RewardRateNum
    * Min(2 * MinStakeTokens + (stake \div Scale), 2 * (2 * MinStakeTokens))
    * uptime * Max(0, LatencyDen - avgLatency) * Max(sessions, 1)
ClaimRawOf(r) ==
  ClaimRaw(r.bandwidthProvided, r.sessionsServed, r.stake,
           nodePerformance[r.nodeId].uptime, nodePerformance[r.nodeId].averageLatency)

C13_LogAppendOnlyBounded ==
  [][/\ Len(transactions) <= TxRetention
     /\ Len(transactions') <= TxRetention
     /\ recorded' = recorded => transactions' = transactions
     /\ recorded' # recorded =>
          LET dropped == Len(transactions) + 1 - Len(transactions')
          IN /\ Len(transactions') = Min(Len(transactions) + 1, TxRetention)
             /\ SubSeq(transactions', 1, Len(transactions') - 1)
                  = SubSeq(transactions, dropped + 1, Len(transactions))]_vars
\* the log is full and has dropped its oldest entry at least once
C13_Witness == Len(transactions) = TxRetention /\ recorded >= 2
\* C14: every transaction the ledger itself appends to the log (stake, unstake,
\* reward) passes validateTransaction: the message rebuilt from its fields is
\* the message that was signed when it was recorded.
C14_LedgerTransactionsVerify ==
  \A i \in DOMAIN transactions : validateTransaction(transactions[i])
\* a route is valid iff it has not expired and every hop is a connected peer
ValidRoute(route) ==
  /\ route.expiresAt > now
  /\ SeqToSet(route.nodes) \subseteq connectedPeers
CountOf(events, event) == Cardinality({i \in DOMAIN events : events[i] = event})
CachedRoute(cache, key) == cache[CacheIndex(cache, key)].route

\* C15: in every reachable state, every session with isActive is bound to a
\* valid route: one that has not expired and whose every hop is still an active
\* peer.
C15_ActiveSessionsValid ==
  \A id \in DOMAIN clientSessions :
    clientSessions[id].isActive => ValidRoute(clientSessions[id].route)

\* C16: when the router has handled the disconnection of peer p, no route of
\* activeRoutes has p among its hops and no session whose route contains p is
\* still open; one session:closed event was emitted per closed session; the
\* routes and sessions that do not contain p are unchanged.
C16_PeerDisconnection ==
  [][\A p \in Peers :
       handlePeerDisconnect(p) =>
         /\ \A id \in DOMAIN activeRoutes' : p \notin SeqToSet(activeRoutes'[id].nodes)
         /\ \A id \in DOMAIN clientSessions' :
              p \notin SeqToSet(clientSessions'[id].route.nodes)
         /\ CountOf(emitted', "session:closed")
              = Cardinality(DOMAIN clientSessions \ DOMAIN clientSessions')
         /\ DOMAIN activeRoutes' \subseteq DOMAIN activeRoutes
         /\ DOMAIN clientSessions' \subseteq DOMAIN clientSessions
         /\ \A id \in DOMAIN activeRoutes :
              p \notin SeqToSet(activeRoutes[id].nodes) =>
                id \in DOMAIN activeRoutes' /\ activeRoutes'[id] = activeRoutes[id]
         /\ \A id \in DOMAIN clientSessions :
              p \notin SeqToSet(clientSessions[id].route.nodes) =>
                id \in DOMAIN clientSessions' /\ clientSessions'[id] = clientSessions[id]]_vars
\* a disconnection has removed a route and closed its session, and a route
\* through another peer is still in activeRoutes
C16_Witness ==
  /\ CountOf(emitted, "route:removed") > 0
  /\ CountOf(emitted, "session:closed") > 0
  /\ DOMAIN activeRoutes # {}

\* the nodes of the registry that are still connected, and the path the
\* optimizer gives through the best of them
RemainingNodes == SelectSeq(nodeRegistry, LAMBDA node : node.id \in connectedPeers)

\* C17: after peer p has been dropped, a findRoute with the destination and
\* requirements of an earlier call that returned a route through p (the cache
\* still holds that route under the key) does not return a route through p: it
\* returns a route through the best remaining active peer, or fails with
\* RouteNotFound when none remains.
C17_NoRouteThroughDroppedPeer ==
  [][\A d \in Dests, q \in Requirements :
       LET key == generateCacheKey(d, q)
       IN (/\ findRoute(d, q)
           /\ CacheIndex(routeCache, key) # 0
           /\ SeqToSet(CachedRoute(routeCache, key).nodes) \ connectedPeers # {}
           /\ result'.status # "pending")
          => IF RemainingNodes = <<>>
             THEN result'.status = "error" /\ result'.cause = "ROUTE_NOT_FOUND"
             ELSE /\ routed'.status = "ok"
                  /\ routed'.route.nodes = findOptimalPath(d, RemainingNodes, q).nodes]_vars

\* C18: after any sequence of findRoute calls and bandwidth reports the route
\* cache holds at most maxCacheSize entries.
C18_CacheBounded == Len(routeCache) <= maxCacheSize
\* the cache is full and has evicted an entry
C18_Witness == Len(routeCache) = maxCacheSize /\ issued >= 2

\* C19: route cache evictions are strictly LRU: when an insertion into a full
\* cache evicts an entry, that entry is the one whose most recent use (its
\* insertion or a cache hit of findRoute) is the oldest.
C19_EvictsLeastRecentlyUsed ==
  [][(findRouteResume /\ Len(routeCache) >= maxCacheSize)
       => /\ CacheIndex(routeCache', cacheUse[1]) = 0
          /\ \A i \in 2..Len(cacheUse) :
               cacheUse[i] # generateCacheKey(Head(pending).destination,
                                              Head(pending).requirements)
                 => CacheIndex(routeCache', cacheUse[i]) # 0]_vars

\* C20: findRoute with a cached entry for its key whose expiresAt > now returns
\* that cached route, invokes no optimizer and creates no route; every other
\* call that succeeds creates a new route, which is in the cache under the key
\* and in activeRoutes when the call returns.
C20_FindRoute ==
  [][/\ \A k \in {"route", "session"}, d \in FindDests, q \in Requirements :
          LET key == generateCacheKey(d, q)
              hit == /\ CacheIndex(routeCache, key) # 0
                     /\ CachedRoute(routeCache, key).expiresAt > now
          IN FindRouteCall(k, d, q) =>
               IF hit
               THEN /\ routed'.status = "ok"
                    /\ routed'.route = CachedRoute(routeCache, key)
                    /\ UNCHANGED <<pending, activeRoutes, routeCache>>
               ELSE routed'.status # "ok"
     /\ findRouteResume =>
          /\ routed'.status = "ok"
          /\ routed'.key = generateCacheKey(Head(pending).destination,
                                            Head(pending).requirements)
          /\ routed'.route.id \notin DOMAIN activeRoutes
          /\ routed'.route.id \in DOMAIN activeRoutes'
          /\ activeRoutes'[routed'.route.id] = routed'.route
          /\ CacheIndex(routeCache', routed'.key) # 0
          /\ CachedRoute(routeCache', routed'.key) = routed'.route]_vars
\* a call has returned a cached route while the cache held another entry too
C20_Witness ==
  /\ routed.status = "ok"
  /\ routed.hit
  /\ Len(routeCache) >= 2
\* C21: a route whose expiresAt equals the current time is invalid for every
\* operation: findRoute does not return it from the cache, and sendPacket on it
\* fails with the route-expired error and forwards nothing.
C21_ExpiryAtNow ==
  [][/\ \A d \in FindDests, q \in Requirements :
          LET key == generateCacheKey(d, q)
          IN (/\ findRoute(d, q)
              /\ CacheIndex(routeCache, key) # 0
              /\ CachedRoute(routeCache, key).expiresAt = now)
             => /\ routed'.status # "ok"
                /\ CacheIndex(routeCache', key) = 0
     /\ \A packet \in Packets, encrypts \in BOOLEAN :
          (/\ sendPacket(packet, encrypts)
           /\ validatePacket(packet)
           /\ packet.route.id \in DOMAIN activeRoutes
           /\ activeRoutes[packet.route.id].expiresAt = now)
          => /\ result'.status = "error"
             /\ result'.cause = "ROUTE_EXPIRED"
             /\ sending' = sending]_vars
\* the hard filters of the requirements, each applied when it is present
PassesFilters(node, requirements) ==
  /\ "minBandwidth" \in DOMAIN requirements
       => node.bandwidth.download >= requirements.minBandwidth
  /\ "maxLatency" \in DOMAIN requirements
       => node.bandwidth.latency <= requirements.maxLatency
  /\ "regions" \in DOMAIN requirements => node.region \in requirements.regions
\* the peers that are active (connected) and pass the hard filters
ActivePassing(requirements) ==
  {nodeRegistry[i].id : i \in {j \in DOMAIN nodeRegistry :
                                 /\ nodeRegistry[j].id \in connectedPeers
                                 /\ PassesFilters(nodeRegistry[j], requirements)}}
CacheKeys(cache) == {cache[i].key : i \in DOMAIN cache}

\* C22: findRoute called when no active peer passes the hard filters (the set
\* of active peers is empty, for one) fails with RouteNotFound, creates no route
\* and no cache entry and emits no route:created.
C22_NotFoundWhenNoPeer ==
  [][\A d \in Dests, q \in FilterRequirements :
       (findRoute(d, q) /\ ActivePassing(q) = {})
       => /\ result'.status = "error"
          /\ result'.cause = "ROUTE_NOT_FOUND"
          /\ pending' = pending
          /\ activeRoutes' = activeRoutes
          /\ CacheKeys(routeCache') \subseteq CacheKeys(routeCache)
          /\ "route:created" \notin SeqToSet(emitted')]_vars

\* C23: every route findRoute(dest, req) creates has one hop, which at the
\* creation is an active peer that passes each hard filter present in req:
\* download >= minBandwidth, latency <= maxLatency, region in regions.
C23_CreatedRouteHop ==
  [][findRouteResume =>
       LET route == routed'.route
           hops == {i \in DOMAIN nodeRegistry : nodeRegistry[i].id = route.nodes[1]}
       IN /\ Len(route.nodes) = 1
          /\ route.nodes[1] \in connectedPeers
          /\ \A i \in hops : PassesFilters(nodeRegistry[i], Head(pending).requirements)]_vars
\* the registry entry of a node id, and the place of the id in lexicographic order
NodeOf(nodeId) == nodeRegistry[CHOOSE i \in DOMAIN nodeRegistry : nodeRegistry[i].id = nodeId]
IdRank(nodeId) == CHOOSE i \in DOMAIN PeerOrder : PeerOrder[i] = nodeId
\* the score an algorithm ranks a candidate by (the greatest wins)
AlgorithmScore(algorithm, node) ==
  CASE algorithm = "shortestPath" -> node.bandwidth.download - node.bandwidth.latency
    [] algorithm = "lowestLatency" -> 0 - node.bandwidth.latency
    [] algorithm = "highestBandwidth" -> node.bandwidth.download
    [] OTHER -> BalancedScore(node)
\* the candidates of the greatest score
BestCandidates(algorithm, nodes) ==
  {n \in SeqToSet(nodes) :
     \A o \in SeqToSet(nodes) : AlgorithmScore(algorithm, o) <= AlgorithmScore(algorithm, n)}
\* 0.4 bw_norm + 0.3 (1 - lat_norm) + 0.2 reputation_norm + 0.1 uptime_norm, with
\* bw_norm = bw / 100 and lat_norm = lat / 1000 capped at 1, times 10000
CappedBalancedScore(node) ==
  40 * Min(node.bandwidth.download, 100) + 3 * (1000 - Min(node.bandwidth.latency, 1000))
    + 20 * node.reputation + 10 * node.bandwidth.uptime

\* C24: for each algorithm of the optimizer, when two or more candidates have
\* the best score the one of the lexicographically lowest node id is selected,
\* whatever the order the candidates were registered in.
C24_TiesByLowestNodeId ==
  [][findRouteResume =>
       LET call == Head(pending)
           tied == BestCandidates(call.requirements.algorithm,
                                  getAvailableNodes(call.requirements))
       IN Cardinality(tied) >= 2
            => \A n \in tied : IdRank(routed'.route.nodes[1]) <= IdRank(n.id)]_vars

\* C25: with algorithm balanced (named or by default) the selected peer is one
\* that maximises 0.4 bw_norm + 0.3 (1 - lat_norm) + 0.2 reputation_norm
\* + 0.1 uptime_norm over the candidates, bw_norm and lat_norm capped at 1.
C25_BalancedMaximisesCappedScore ==
  [][(findRouteResume /\ Head(pending).requirements.algorithm \in {"balanced", NoAlgorithm})
       => \A n \in SeqToSet(getAvailableNodes(Head(pending).requirements)) :
            CappedBalancedScore(n) <= CappedBalancedScore(NodeOf(routed'.route.nodes[1]))]_vars

\* C30: shortestPath selects a candidate of the greatest download - latency,
\* lowestLatency one of the least latency, highestBandwidth one of the greatest
\* download; each gives a route of exactly one hop whose latency and bandwidth
\* are those of that hop.
C30_SingleCriterionExtremal ==
  [][(/\ findRouteResume
      /\ Head(pending).requirements.algorithm
           \in {"shortestPath", "lowestLatency", "highestBandwidth"})
       => LET call == Head(pending)
              route == routed'.route
              hop == NodeOf(route.nodes[1])
          IN /\ Len(route.nodes) = 1
             /\ hop \in BestCandidates(call.requirements.algorithm,
                                       getAvailableNodes(call.requirements))
             /\ route.latency = hop.bandwidth.latency
             /\ route.bandwidth = hop.bandwidth.download]_vars
\* the peers in the active state: connected, or isActive in the registry
ActivePeers ==
  connectedPeers \cup {nodeRegistry[i].id : i \in {j \in DOMAIN nodeRegistry :
                                                    nodeRegistry[j].isActive}}
\* the keepalive (heartbeat) window: one step of the clock
KeepaliveWindow == ClockStep

\* C26: no peer is active (connected, or isActive in the registry and so
\* eligible as a hop) unless a handshake signed by it has been received and
\* verified against its advertised public key, and its lastSeen lies within the
\* keepalive window.
C26_ActiveOnlyIfVerified ==
  \A p \in ActivePeers :
    /\ p \in verified
    /\ p \in connectedPeers => now - peerInfo[p].lastSeen <= KeepaliveWindow

\* C27: when a signed handshake message is received a second time from the same
\* peer (same source and id), it is rejected and the registry stays exactly as
\* it was.
C27_ReplayRejected ==
  [][\A p \in Peers, id \in HandshakeIds :
       LET message == HandshakeMessage(p, id, "1.0.0")
       IN (handleHandshake(message, p) /\ message \in received)
          => /\ emitted' = <<"handshake:error">>
             /\ nodeRegistry' = nodeRegistry]_vars

\* C28: a heartbeat of a connected peer sets the lastSeen and the bandwidth of
\* that peer; a peer from which no heartbeat has arrived for two windows is
\* dropped: it is no longer among the connected peers.
C28_HeartbeatOrDropped ==
  [][/\ \A p \in connectedPeers, b \in Heartbeats :
          handleHeartbeat(p, b)
            => peerInfo'[p].lastSeen = now /\ peerInfo'[p].bandwidth = b
     /\ \A p \in connectedPeers' : now' - peerInfo'[p].lastSeen < 2 * KeepaliveWindow]_vars

\* C29: in a distribution run a node receives a reward only if its stake is at
\* least min_stake at the time of the run: a step of a run credits no node whose
\* stake is below min_stake and appends no reward transaction for it, the
\* rewards a run holds are those of nodes staked at min_stake or more, and
\* calculateRewards returns amount 0 for a node below min_stake whatever its
\* counters and performance are.
C29_RewardOnlyAtMinStake ==
  /\ [](\A n \in Nodes : stakes[n] < MinStake => calculateRewards(n).amount = 0)
  /\ [][\A c \in DOMAIN runs :
          (distributeRewards(c) \/ distributeRewardsResume(c)) =>
            /\ \A n \in Nodes :
                 stakes[n] < MinStake =>
                   /\ balances'[n] = balances[n]
                   /\ \A i \in DOMAIN transactions' \ DOMAIN transactions :
                        transactions'[i].to # n
            /\ \A i \in DOMAIN runs'[c].rewards :
                 stakes[runs'[c].rewards[i].nodeId] >= MinStake]_vars
\* a run has returned while a node that staked and then unstaked below
\* min_stake had counters and a performance that would earn a reward: the log
\* holds its unstake and no reward
C29_Witness ==
  \E n \in Nodes :
    /\ emitted = <<"rewards:distributed">>
    /\ stakes[n] > 0 /\ stakes[n] < MinStake
    /\ bandwidthProvided[n] > 0 /\ sessionsServed[n] > 0
    /\ nodePerformance[n].uptime > 0 /\ nodePerformance[n].averageLatency < LatencyDen
    /\ \E i \in DOMAIN transactions :
         transactions[i].type = "unstake" /\ transactions[i].to = n
    /\ \A i \in DOMAIN transactions : transactions[i].type # "reward"
    /\ balances[n] = initializeTokenSystem[n] - stakes[n]

\* bytes_used of a route: route.bandwidthUsed, 0 while it is unset
BytesUsed(used, routeId) == IF routeId \in DOMAIN used THEN used[routeId] ELSE 0
\* C31: every successful send of a packet on a route increases the bytes_used
\* of that route by exactly the payload size of the packet, encrypted or not,
\* and bytes_used never decreases; the bandwidth warning is emitted exactly when
\* the new bytes_used exceeds 0.8 * bandwidth, and the send still succeeds.
C31_BytesUsedBookkeeping ==
  [][/\ \A id \in DOMAIN bandwidthUsed :
          id \in DOMAIN bandwidthUsed' /\ bandwidthUsed'[id] >= bandwidthUsed[id]
     /\ (sendPacketResume(TRUE) /\ Head(sending).routeId \in DOMAIN activeRoutes)
          => LET packet == Head(sending)
                 route == activeRoutes[packet.routeId]
                 new == BytesUsed(bandwidthUsed, packet.routeId) + packet.payloadLength
             IN /\ BytesUsed(bandwidthUsed', packet.routeId) = new
                /\ result'.status = "ok"
                /\ (\E i \in DOMAIN emitted' : emitted'[i] = "route:bandwidth_warning")
                     <=> 5 * new > 4 * route.bandwidth]_vars

\* C32: when a packet is forwarded, the route snapshot in the forwarded packet
\* is the hop list of the route without its head, the next hop the packet is
\* sent to, the remaining hops in the same order; the hop list of the route in
\* activeRoutes is left as it was.
C32_ForwardedSnapshot ==
  [][/\ \A packet \in Packets, encrypts \in BOOLEAN :
          (sendPacket(packet, encrypts) /\ Len(sending') > Len(sending))
            => LET route == activeRoutes[packet.route.id]
                   forwarded == sending'[Len(sending')]
               IN /\ <<forwarded.nextNodeId>> \o forwarded.nodes = route.nodes
                  /\ activeRoutes' = activeRoutes
     /\ \A delivered \in BOOLEAN :
          sendPacketResume(delivered) => activeRoutes' = activeRoutes]_vars
\* a packet is on its way to the hop of its route, its snapshot without that hop
C32_Witness ==
  /\ sending # <<>>
  /\ Head(sending).routeId \in DOMAIN activeRoutes
  /\ Head(sending).nextNodeId = activeRoutes[Head(sending).routeId].nodes[1]
  /\ Len(Head(sending).nodes) = Len(activeRoutes[Head(sending).routeId].nodes) - 1

\* the entries of a cache whose route has the node among its hops
EntriesThrough(cache, nodeId) ==
  {cache[i] : i \in {j \in DOMAIN cache : nodeId \in SeqToSet(cache[j].route.nodes)}}
\* C33: after the router has consumed a bandwidth report of peer p, no entry
\* of the route cache has p among its hops, so the key of every entry that had
\* is no longer cached; the entries without p are those of before, in the
\* same order, and activeRoutes and the sessions are unchanged.
C33_ReportInvalidatesCache ==
  [][\A p \in Peers, b \in BandwidthReports :
       handleBandwidthReport(p, b)
         => /\ EntriesThrough(routeCache', p) = {}
            /\ \A entry \in EntriesThrough(routeCache, p) :
                 CacheIndex(routeCache', entry.key) = 0
            /\ routeCache' = SelectSeq(routeCache,
                                       LAMBDA entry : entry \notin EntriesThrough(routeCache, p))
            /\ activeRoutes' = activeRoutes
            /\ clientSessions' = clientSessions]_vars
\* a report has just been consumed: a route of activeRoutes is no longer in
\* the cache, another entry is still cached, and a session is open
C33_Witness ==
  /\ emitted = <<"bandwidth:report">>
  /\ routeCache # <<>>
  /\ clientSessions # <<>>
  /\ \E id \in DOMAIN activeRoutes :
       \A i \in DOMAIN routeCache : routeCache[i].route # activeRoutes[id]

\* C34: closing a session removes it from the open sessions and emits
\* session:closed, and removes its route from activeRoutes only if no other
\* open session is bound to that route: when two sessions share a route,
\* closing one leaves the route of the other in activeRoutes.
C34_CloseKeepsSharedRoute ==
  [][\A id \in DOMAIN clientSessions :
       closeSession(id)
         => /\ id \notin DOMAIN clientSessions'
            /\ \E i \in DOMAIN emitted' : emitted'[i] = "session:closed"
            /\ \A other \in DOMAIN clientSessions' :
                 clientSessions'[other].route.id \in DOMAIN activeRoutes
                   => clientSessions'[other].route.id \in DOMAIN activeRoutes']_vars

\* the sum of the rewards a run has credited: those it did not skip
CreditedBy(rewards, skipped) ==
  SumOver([i \in DOMAIN rewards |->
             IF rewards[i].nodeId \in skipped THEN 0 ELSE rewards[i].amount],
          DOMAIN rewards)
\* C36: the totalDistributed a run of distributeRewards returns and emits
\* equals the amount by which the run has decreased the reward pool, the sum of
\* the rewards it credited, also when it skipped rewards the pool could not pay.
C36_TotalDistributedIsCredited ==
  [][\A c \in DOMAIN runs :
       (RunStep(c) /\ emitted' = <<"rewards:distributed">>)
         => totalDistributed(RunRewards(c))
              = CreditedBy(RunRewards(c),
                           IF runs[c].pc = "paying" THEN runs[c].skipped ELSE {})]_vars

\* C35: when an operator stops a node of theirs (node:stop), every active
\* session whose route contains the node becomes inactive with its end time
\* set, and the sessions whose route does not contain it stay as they were
C35_NodeStopClosesSessions ==
  [][\A u \in UserIds, n \in NodeIds :
       (handleNodeStop(u, n) /\ result' = Ok)
         => \A x \in DOMAIN dbSessions :
              /\ (n \in SeqToSet(dbSessions[x].route) /\ dbSessions[x].isActive)
                   => (~dbSessions'[x].isActive /\ dbSessions'[x].ended)
              /\ n \notin SeqToSet(dbSessions[x].route)
                   => dbSessions'[x] = dbSessions[x]]_vars

\* C40: a reward is claimed at most once: whatever the interleaving of the
\* reward:claim requests, at most one of them has broadcast reward:claimed for it
C40_RewardClaimedOnce ==
  \A r \in RewardIds :
    Cardinality({k \in DOMAIN claimLog : claimLog[k].rewardId = r}) <= 1

\* C37: the close event of a socket that disconnect() has closed sets no
\* reconnect timer, whatever autoReconnect and the retries that remain
C37_NoReconnectAfterDisconnect ==
  [][\A k \in DOMAIN sockets :
       (wsClose(k) /\ sockets[k] \in {"closing", "aborting"}) => timers' = timers]_vars

\* C38: tunnelActive is set and tunnel:started emitted only as a startTunnel
\* call resolves: never by a route_response that finds only calls that have
\* rejected already (timeout, error event)
C38_NoTunnelAfterReject ==
  [][(("tunnel:started" \in SeqToSet(emitted')) \/ (client'.tunnelActive /\ ~client.tunnelActive))
       => \E i \in DOMAIN tunnels :
            tunnels[i].promise = "pending" /\ tunnels'[i].promise = "resolved"]_vars

\* C39: never two sockets connecting at once; the retry count is 0 after a
\* socket has opened; and the connect() of a reconnect timer never takes the
\* count of attempts since the last success beyond maxRetries
Connecting == {k \in DOMAIN sockets : sockets[k] = "connecting"}
C39_BoundedSequentialRetries ==
  /\ [](Cardinality(Connecting) <= 1)
  /\ [][(\E k \in DOMAIN sockets : wsOpen(k)) => client'.retryCount = 0]_vars
  /\ [][reconnectTimer => client'.retryCount <= client.maxRetries]_vars
====
